---- MODULE Spec2Model ----
(***************************************************************************)
(* Read Aloud (groverception/read-aloud): the article parser               *)
(* (ArticleParser, listed in src/README.md) over a document tree and a     *)
(* navigation path.                                                        *)
(*                                                                         *)
(* Texts are TLA+ strings; a character is a string of length 1.  The       *)
(* document is a sequence of elements in document order (preorder), each   *)
(* with the index of its parent element (0: directly under the body).      *)
(* An element's text field is its rendered text (innerText; textContent    *)
(* is taken to be the same text).                                          *)
(***************************************************************************)
EXTENDS Integers, Sequences, FiniteSets, TLC

VARIABLES pathname, document, ret, controller, tts, listener

vars == <<pathname, document, ret, controller, tts, listener>>

(***************************************************************************)
(* Characters and strings                                                  *)
(***************************************************************************)
Char(s, i) == SubSeq(s, i, i)

\* the value of Body at v, with v computed once
With(v, Body(_)) == CHOOSE r \in {Body(x) : x \in {v}} : TRUE

Digits == {"0", "1", "2", "3", "4", "5", "6", "7", "8", "9"}

UpperToLower ==
  [c \in {"A", "B", "C", "D", "E", "F", "G", "H", "I", "J", "K", "L", "M",
          "N", "O", "P", "Q", "R", "S", "T", "U", "V", "W", "X", "Y", "Z"} |->
     CASE c = "A" -> "a" [] c = "B" -> "b" [] c = "C" -> "c" [] c = "D" -> "d"
       [] c = "E" -> "e" [] c = "F" -> "f" [] c = "G" -> "g" [] c = "H" -> "h"
       [] c = "I" -> "i" [] c = "J" -> "j" [] c = "K" -> "k" [] c = "L" -> "l"
       [] c = "M" -> "m" [] c = "N" -> "n" [] c = "O" -> "o" [] c = "P" -> "p"
       [] c = "Q" -> "q" [] c = "R" -> "r" [] c = "S" -> "s" [] c = "T" -> "t"
       [] c = "U" -> "u" [] c = "V" -> "v" [] c = "W" -> "w" [] c = "X" -> "x"
       [] c = "Y" -> "y" [] c = "Z" -> "z"]

LowerLetters == {UpperToLower[c] : c \in DOMAIN UpperToLower}

\* String.prototype.toLowerCase on one character
LowerChar(c) == IF c \in DOMAIN UpperToLower THEN UpperToLower[c] ELSE c

\* the regular-expression class \s
IsSpace(c) == c \in {" ", "\n", "\t", "\r"}

\* membership of a character in a regular-expression class (flag i applied)
InClass(c, cls) ==
  CASE cls = "d" -> c \in Digits
    [] cls = "s" -> IsSpace(c)
    [] cls = "w" -> LowerChar(c) \in LowerLetters \/ c \in Digits \/ c = "_"
    [] cls = "notslash" -> c # "/"
    [] cls = "dot" -> c = "."
    [] cls = "comma" -> c = ","
    [] cls = "kmb" -> LowerChar(c) \in {"k", "m", "b"}
    [] cls = "any" -> c \notin {"\n", "\r"}

\* String.prototype.toLowerCase
RECURSIVE toLowerCase(_)
toLowerCase(s) ==
  IF Len(s) = 0 THEN ""
  ELSE IF Len(s) = 1 THEN LowerChar(s)
  ELSE toLowerCase(SubSeq(s, 1, Len(s) \div 2))
         \o toLowerCase(SubSeq(s, (Len(s) \div 2) + 1, Len(s)))

\* first index >= i of s that holds no white space (Len(s) + 1 if none)
SkipSpaceFrom(s, i) ==
  CHOOSE j \in i..(Len(s) + 1) :
    /\ j > Len(s) \/ ~IsSpace(Char(s, j))
    /\ \A k \in i..(j - 1) : IsSpace(Char(s, k))

\* last index <= i of s that holds no white space (0 if none)
SkipSpaceBack(s, i) ==
  i - (CHOOSE d \in 0..i :
         /\ d = i \/ ~IsSpace(Char(s, i - d))
         /\ \A k \in (i - d + 1)..i : IsSpace(Char(s, k)))

\* String.prototype.trim
trim(s) ==
  LET a == SkipSpaceFrom(s, 1)
      b == SkipSpaceBack(s, Len(s))
  IN  IF a > b THEN "" ELSE SubSeq(s, a, b)

\* String.prototype.startsWith / includes
startsWith(s, p) == Len(s) >= Len(p) /\ SubSeq(s, 1, Len(p)) = p

includes(s, p) ==
  \E i \in 1..(Len(s) - Len(p) + 1) : SubSeq(s, i, i + Len(p) - 1) = p

\* Array.prototype.join on a sequence of strings
RECURSIVE join(_, _)
join(parts, sep) ==
  IF Len(parts) = 0 THEN ""
  ELSE IF Len(parts) = 1 THEN parts[1]
  ELSE parts[1] \o sep \o join(Tail(parts), sep)

\* String.prototype.split on a one-character separator: the pieces between
\* the positions at which sep stands
split(s, sep) ==
  LET at == {i \in 1..Len(s) : Char(s, i) = sep}
      starts == {1} \cup {i + 1 : i \in at}
      pieceFrom(a) ==
        SubSeq(s, a, (CHOOSE j \in a..(Len(s) + 1) :
                        /\ j > Len(s) \/ j \in at
                        /\ \A k \in a..(j - 1) : k \notin at) - 1)
      nth[k \in 1..Cardinality(starts)] ==
        IF k = 1 THEN 1
        ELSE CHOOSE a \in starts : a > nth[k - 1] /\ \A b \in starts : b > nth[k - 1] => a <= b
  IN  [k \in 1..Cardinality(starts) |-> pieceFrom(nth[k])]

(***************************************************************************)
(* Regular expressions.  A pattern is a sequence of items:                 *)
(*   Alt(ws)     one of the literal words ws       (Like|Repost|...)       *)
(*   AltI(ws)    the same under flag i                                     *)
(*   One(c)      one character of class c          \d  [KMB]               *)
(*   Opt1(c)     at most one character of class c  \.?  ,?                 *)
(*   Star(c)     any number of characters of c     \d*  \s*                *)
(*   Plus(c)     one or more characters of c       \d+  \w+                *)
(*   Opt(r)      an optional group                 (...)?                  *)
(* MatchEnds gives every position at which a match that starts at a        *)
(* position of P can end, which is what a backtracking matcher explores.   *)
(***************************************************************************)
Alt(ws) == [k |-> "alt", ws |-> ws, ci |-> FALSE]
AltI(ws) == [k |-> "alt", ws |-> ws, ci |-> TRUE]
One(c) == [k |-> "cls", c |-> c, min |-> 1, many |-> FALSE]
Opt1(c) == [k |-> "cls", c |-> c, min |-> 0, many |-> FALSE]
Star(c) == [k |-> "cls", c |-> c, min |-> 0, many |-> TRUE]
Plus(c) == [k |-> "cls", c |-> c, min |-> 1, many |-> TRUE]
Opt(r) == [k |-> "opt", r |-> r]

\* first index >= i of s whose character is not of class c (Len(s) + 1 if none)
RunEnd(s, i, c) ==
  CHOOSE j \in i..(Len(s) + 1) :
    /\ j > Len(s) \/ ~InClass(Char(s, j), c)
    /\ \A k \in i..(j - 1) : InClass(Char(s, k), c)

WordAt(s, p, w, ci) ==
  /\ p + Len(w) - 1 <= Len(s)
  /\ LET sub == SubSeq(s, p, p + Len(w) - 1)
     IN  IF ci THEN toLowerCase(sub) = toLowerCase(w) ELSE sub = w

RECURSIVE MatchEnds(_, _, _)
RECURSIVE ItemEndsAt(_, _, _)
ItemEndsAt(it, s, p) ==
  CASE it.k = "alt" -> {p + Len(w) : w \in {v \in it.ws : WordAt(s, p, v, it.ci)}}
    [] it.k = "cls" ->
         LET e == RunEnd(s, p, it.c)
             hi == IF it.many \/ e <= p THEN e ELSE p + 1
         IN  (p + it.min)..hi
    [] it.k = "opt" -> {p} \cup MatchEnds(it.r, s, {p})

MatchEnds(r, s, P) ==
  IF Len(r) = 0 \/ P = {} THEN P
  ELSE MatchEnds(Tail(r), s, UNION {ItemEndsAt(Head(r), s, p) : p \in P})

\* RegExp.prototype.test for a pattern written ^...$
TestWhole(r, s) == (Len(s) + 1) \in MatchEnds(r, s, {1})

\* RegExp.prototype.test for a pattern with no anchor
TestAnywhere(r, s) == \E p \in 1..(Len(s) + 1) : MatchEnds(r, s, {p}) # {}

(***************************************************************************)
(* The document tree                                                       *)
(***************************************************************************)
\* an element with no attribute set; parent 0 is the body
Element ==
  [tag |-> "div", testid |-> "", cls |-> "", role |-> "", href |-> "",
   lang |-> FALSE, dir |-> "", text |-> "", parent |-> 0]

NoElement == 0

\* i lies inside root (root = 0: the whole document)
RECURSIVE IsInside(_, _, _)
IsInside(els, i, root) ==
  \/ root = 0
  \/ /\ els[i].parent # 0
     /\ (els[i].parent = root \/ IsInside(els, els[i].parent, root))

ArticleContainerIds ==
  {"twitterArticleReadView", "article", "articleViewer", "article-cover", "noteContent"}

\* a selector: [data-testid="id"], or another selector of the parser by its text
ById(id) == [testid |-> id, css |-> ""]
Css(text) == [testid |-> "", css |-> text]

\* Element.matches for the selectors the parser uses
Matches(els, i, sel) ==
  LET e == els[i]
      css == sel.css
  IN  IF css = "" THEN e.testid = sel.testid
      ELSE CASE css = "span" -> e.tag = "span"
        [] css = "span > span" ->
             e.tag = "span" /\ e.parent # 0 /\ els[e.parent].tag = "span"
        [] css = "article" -> e.tag = "article"
        [] css = "main" -> e.tag = "main"
        [] css = "article[data-testid=tweet]" -> e.tag = "article" /\ e.testid = "tweet"
        [] css = "a[href^=/]" -> e.tag = "a" /\ startsWith(e.href, "/")
        [] css = "h1, h2, [role=heading]" -> e.tag \in {"h1", "h2"} \/ e.role = "heading"
        [] css = "p, [data-testid=tweetText], div[dir=auto][lang]" ->
             \/ e.tag = "p"
             \/ e.testid = "tweetText"
             \/ (e.tag = "div" /\ e.dir = "auto" /\ e.lang)
        [] css = "div[lang]" -> e.tag = "div" /\ e.lang
        [] css = "[class*=longform-], .public-DraftStyleDefault-ul, .public-DraftStyleDefault-ol" ->
             \/ includes(e.cls, "longform-")
             \/ e.cls \in {"public-DraftStyleDefault-ul", "public-DraftStyleDefault-ol"}
        [] css = "[role=link][href*=/status/]" ->
             e.role = "link" /\ includes(e.href, "/status/")
        [] css = "nav, footer, button, [role=button], [role=navigation]" ->
             e.tag \in {"nav", "footer", "button"} \/ e.role \in {"button", "navigation"}

\* the elements inside root that match sel (root = 0: document.querySelectorAll)
querySelectorAll(els, root, sel) ==
  {i \in 1..Len(els) : IsInside(els, i, root) /\ Matches(els, i, sel)}

First(S) == IF S = {} THEN NoElement ELSE CHOOSE i \in S : \A j \in S : i <= j

\* the first such element in document order, NoElement (null) if none
querySelector(els, root, sel) == First(querySelectorAll(els, root, sel))

\* Element.closest(sel) is not null
RECURSIVE closest(_, _, _)
closest(els, i, sel) ==
  \/ Matches(els, i, sel)
  \/ (els[i].parent # 0 /\ closest(els, els[i].parent, sel))

\* (el.innerText || '') for an element that may be null
innerText(els, i) == IF i = NoElement THEN "" ELSE els[i].text

(***************************************************************************)
(* ArticleParser.isArticlePage                                             *)
(***************************************************************************)
MIN_SINGLE_TWEET_LENGTH == 280
MIN_THREAD_CONTENT_LENGTH == 400
MIN_THREAD_TWEETS == 2

\* the URL check with the second pattern left out
isExplicitArticleUrl_ArticleOnly(path) == includes(path, "/article/")

isExplicitArticleUrl(path) ==
  includes(path, "/article/") \/ includes(path, "/i/articles/")

\* the status check without the digits
isStatusUrl_NoDigits(path) == includes(path, "/status/")

\* /\/status\/\d+/.test(pathname)
isStatusUrl(path) == TestAnywhere(<<Alt({"/status/"}), Plus("d")>>, path)

\* Check 1: an X Article / Notes container anywhere in the document
hasArticleContainer(els) ==
  \E id \in ArticleContainerIds :
     querySelector(els, 0, ById(id)) # NoElement

\* Check 2 without the trim
hasArticleLabel_Untrimmed(els, primaryColumn) ==
  \E i \in querySelectorAll(els, primaryColumn, Css("span")) :
     els[i].text \in {"Article", "Notes"}

\* Check 2: a span of the primary column whose trimmed text is a label
hasArticleLabel(els, primaryColumn) ==
  \E i \in querySelectorAll(els, primaryColumn, Css("span")) :
     trim(els[i].text) \in {"Article", "Notes"}

\* Check 3: the "Show more" link anywhere in the document
hasShowMoreLink(els) ==
  querySelector(els, 0, ById("tweet-text-show-more-link")) # NoElement

getMainTweetElement(els) ==
  LET tweet == querySelector(els, 0, ById("tweet"))
      tweetDetail == IF tweet # NoElement THEN tweet
                     ELSE querySelector(els, 0, ById("tweetDetail"))
      primaryColumn == querySelector(els, 0, ById("primaryColumn"))
  IN  IF tweetDetail = NoElement /\ primaryColumn # NoElement
      THEN querySelector(els, primaryColumn, Css("article"))
      ELSE tweetDetail

\* the length of the text of the first tweetText inside el (0 if there is none)
tweetTextLength(els, el) ==
  Len(innerText(els, querySelector(els, el, ById("tweetText"))))

\* Check 4 with the comparison off by one
isLongSingleTweet_AtLeast(mainTextLength) == mainTextLength >= MIN_SINGLE_TWEET_LENGTH

\* Check 4
isLongSingleTweet(mainTextLength) == mainTextLength > MIN_SINGLE_TWEET_LENGTH

\* pathname.match(/^\/([^/]+)\//): <<handle>>, or <<>> for null
getAuthorHandle(path) ==
  LET e == RunEnd(path, 2, "notslash")
  IN  IF startsWith(path, "/") /\ e > 2 /\ e <= Len(path) /\ Char(path, e) = "/"
      THEN <<toLowerCase(SubSeq(path, 2, e - 1))>>
      ELSE <<>>

\* href.replace(/^\//, '').split('/')[0].toLowerCase(): <<handle>>, or <<>> for null
extractAuthorFromElement(els, element) ==
  LET userNameEl == querySelector(els, element, ById("User-Name"))
      handle == IF userNameEl = NoElement THEN NoElement
                ELSE querySelector(els, userNameEl, Css("a[href^=/]"))
  IN  IF handle # NoElement /\ els[handle].href # ""
      THEN LET rest == SubSeq(els[handle].href, 2, Len(els[handle].href))
           IN  <<toLowerCase(split(rest, "/")[1])>>
      ELSE <<>>

\* Check 5 counting the tweets inside quoted tweets too
authorTweets_WithQuoted(els, primaryColumn, authorHandle) ==
  {t \in querySelectorAll(els, primaryColumn, Css("article[data-testid=tweet]")) :
     extractAuthorFromElement(els, t) = <<authorHandle>>}

\* the tweets of the primary column that Check 5 counts for authorHandle
authorTweets(els, primaryColumn, authorHandle) ==
  {t \in querySelectorAll(els, primaryColumn, Css("article[data-testid=tweet]")) :
     /\ ~closest(els, t, ById("quoteTweet"))
     /\ extractAuthorFromElement(els, t) = <<authorHandle>>}

RECURSIVE SumTweetText(_, _)
SumTweetText(els, S) ==
  IF S = {} THEN 0
  ELSE LET t == First(S)
       IN  tweetTextLength(els, t) + SumTweetText(els, S \ {t})

\* Check 5 with the content comparison off by one
isThread_MoreThan(authorTweetCount, totalAuthorContent) ==
  /\ authorTweetCount >= MIN_THREAD_TWEETS
  /\ totalAuthorContent > MIN_THREAD_CONTENT_LENGTH

\* Check 5
isThread(authorTweetCount, totalAuthorContent) ==
  /\ authorTweetCount >= MIN_THREAD_TWEETS
  /\ totalAuthorContent >= MIN_THREAD_CONTENT_LENGTH

\* isArticlePage from the primary-column check on (a status page)
statusPageIsArticle(path, doc) ==
  LET els == doc.els
      primaryColumn == querySelector(els, 0, ById("primaryColumn"))
      mainTweet == getMainTweetElement(els)
      authorHandle == getAuthorHandle(path)
  IN  IF primaryColumn = NoElement THEN FALSE
      ELSE IF hasArticleContainer(els) THEN TRUE
      ELSE IF hasArticleLabel(els, primaryColumn) THEN TRUE
      ELSE IF hasShowMoreLink(els) THEN TRUE
      ELSE IF mainTweet = NoElement THEN FALSE
      ELSE IF isLongSingleTweet(tweetTextLength(els, mainTweet)) THEN TRUE
      ELSE IF authorHandle = <<>> THEN FALSE
      ELSE LET counted == authorTweets(els, primaryColumn, authorHandle[1])
           IN  isThread(Cardinality(counted), SumTweetText(els, counted))

\* isArticlePage with the document-wide checks ahead of the primary-column check
isArticlePage_SignalsFirst(path, doc) ==
  IF isExplicitArticleUrl(path) THEN TRUE
  ELSE IF ~isStatusUrl(path) THEN FALSE
  ELSE IF hasArticleContainer(doc.els) \/ hasShowMoreLink(doc.els) THEN TRUE
  ELSE statusPageIsArticle(path, doc)

isArticlePage(path, doc) ==
  IF isExplicitArticleUrl(path) THEN TRUE
  ELSE IF ~isStatusUrl(path) THEN FALSE
  ELSE statusPageIsArticle(path, doc)

(***************************************************************************)
(* Text cleaning and the UI filters                                        *)
(***************************************************************************)
\* s[lo..hi] holds white space that the replacement changes: a white space
\* character other than a space, or one that follows white space
HasSpaceRun(s, lo, hi) ==
  \E i \in lo..hi :
     /\ IsSpace(Char(s, i))
     /\ Char(s, i) # " " \/ (i > 1 /\ IsSpace(Char(s, i - 1)))

\* text.replace(/\s+/g, ' ') on s[lo..hi]: a run of white space leaves one space
RECURSIVE CollapseSpace(_, _, _)
CollapseSpace(s, lo, hi) ==
  IF lo > hi THEN ""
  ELSE IF ~HasSpaceRun(s, lo, hi) THEN SubSeq(s, lo, hi)
  ELSE IF lo = hi
       THEN IF ~IsSpace(Char(s, lo)) THEN Char(s, lo)
            ELSE IF lo = 1 \/ ~IsSpace(Char(s, lo - 1)) THEN " " ELSE ""
       ELSE LET mid == (lo + hi) \div 2
            IN  CollapseSpace(s, lo, mid) \o CollapseSpace(s, mid + 1, hi)

\* the index of the last "\n" of the white space that follows position i (0 if none)
RECURSIVE LastNewline(_, _, _)
LastNewline(s, j, found) ==
  IF j > Len(s) \/ ~IsSpace(Char(s, j)) THEN found
  ELSE LastNewline(s, j + 1, IF Char(s, j) = "\n" THEN j ELSE found)

\* text.replace(/\n\s*\n/g, '\n') from position i on
RECURSIVE CollapseBlankLines(_, _)
CollapseBlankLines(s, i) ==
  IF i > Len(s) THEN ""
  ELSE LET j == IF Char(s, i) = "\n" THEN LastNewline(s, i + 1, 0) ELSE 0
       IN  IF j # 0 THEN "\n" \o CollapseBlankLines(s, j + 1)
           ELSE Char(s, i) \o CollapseBlankLines(s, i + 1)

cleanText(text) ==
  IF text = "" THEN ""
  ELSE LET a == CollapseSpace(text, 1, Len(text))
           b == IF includes(a, "\n") THEN CollapseBlankLines(a, 1) ELSE a
       IN  trim(b)

buttonPatterns ==
  << <<AltI({"Like", "Repost", "Reply", "Share", "Bookmark", "Copy link", "More"})>>,
     <<Plus("d"), Opt1("dot"), Star("d"), Opt1("kmb")>>,
     <<AltI({"Follow"})>>,
     <<AltI({"Following"})>>,
     <<Alt({"Â·"})>> >>

isButtonText(text) ==
  \E k \in 1..Len(buttonPatterns) : TestWhole(buttonPatterns[k], trim(text))

Months ==
  {"Jan", "Feb", "Mar", "Apr", "May", "Jun", "Jul", "Aug", "Sep", "Oct", "Nov", "Dec"}

uiPatterns ==
  << <<Opt(<<Plus("d"), Opt1("dot"), Star("d"), Opt1("kmb"), Star("s")>>),
       AltI({"Repost", "Like", "View", "Reply", "Quote", "Share", "Bookmark", "More"}),
       Opt(<<AltI({"s"})>>)>>,
     <<AltI({"Show more"})>>,
     <<AltI({"Show this thread"})>>,
     <<AltI({"Translate post", "Translate tweet"})>>,
     <<AltI({"Replying to @"}), Plus("w")>>,
     <<AltI({"Follow"})>>,
     <<AltI({"Following"})>>,
     <<AltI({"Promoted"})>>,
     <<AltI({"Ad"})>>,
     <<Plus("d"), Alt({":"}), Plus("d"), Star("s"), AltI({"AM", "PM"})>>,
     <<AltI(Months), Plus("s"), Plus("d"), Opt1("comma"), Star("s"), Star("d")>>,
     <<AltI({"Read "}), Plus("d"), AltI({" replies", " reply"})>>,
     <<AltI({"See new posts", "See new tweets"})>>,
     <<AltI({"Who to follow"})>>,
     <<AltI({"Trends for you"})>>,
     <<AltI({"Subscribe"})>>,
     <<AltI({"Get verified"})>> >>

UI_MIN_TEXT_LENGTH == 20
UI_PATTERN_MAX_LENGTH == 50

isUIElement(els, element, text) ==
  IF closest(els, element, Css("nav, footer, button, [role=button], [role=navigation]"))
  THEN TRUE
  ELSE IF Len(text) < UI_MIN_TEXT_LENGTH THEN TRUE
  ELSE /\ Len(text) < UI_PATTERN_MAX_LENGTH
       /\ \E k \in 1..Len(uiPatterns) : TestWhole(uiPatterns[k], trim(text))

(***************************************************************************)
(* Content extraction                                                      *)
(***************************************************************************)
\* the elements of S as a sequence in document order
RECURSIVE InOrder(_)
InOrder(S) == IF S = {} THEN <<>> ELSE <<First(S)>> \o InOrder(S \ {First(S)})

Range(seq) == {seq[k] : k \in 1..Len(seq)}

\* the content object extractContent starts from
emptyContent == [title |-> "", author |-> "", body |-> "", paragraphs |-> <<>>]

\* the text that the TreeWalker of extractTextFromElement gathers is taken to be
\* the element's text, line breaks included
extractTextFromElement(els, element) == cleanText(els[element].text)

\* the title pattern /^(.+?)\s+(?:on\s+X|\/\s+X):/ after its lazy group
titleTail == <<Plus("s"), Alt({"on", "/"}), Plus("s"), Alt({"X"}), Alt({":"})>>

\* extractAuthor that takes the name of the element even when it is a handle
extractAuthor_KeepsHandle(doc) ==
  LET els == doc.els
      userNameEl == querySelector(els, 0, ById("User-Name"))
      nameSpan == IF userNameEl = NoElement THEN NoElement
                  ELSE querySelector(els, userNameEl, Css("span > span"))
      name == trim(innerText(els, nameSpan))
      pageTitle == doc.title
      groupEnds == {q \in 2..RunEnd(pageTitle, 1, "any") :
                      MatchEnds(titleTail, pageTitle, {q}) # {}}
  IN  IF nameSpan # NoElement /\ els[nameSpan].text # "" /\ name # ""
      THEN name
      ELSE IF groupEnds # {} THEN trim(SubSeq(pageTitle, 1, First(groupEnds) - 1))
      ELSE IF doc.metaAuthor # "" THEN doc.metaAuthor
      ELSE ""

\* extractAuthor that reads the meta tag before the page title
extractAuthor_MetaFirst(doc) ==
  LET els == doc.els
      userNameEl == querySelector(els, 0, ById("User-Name"))
      nameSpan == IF userNameEl = NoElement THEN NoElement
                  ELSE querySelector(els, userNameEl, Css("span > span"))
      name == trim(innerText(els, nameSpan))
      pageTitle == doc.title
      groupEnds == {q \in 2..RunEnd(pageTitle, 1, "any") :
                      MatchEnds(titleTail, pageTitle, {q}) # {}}
  IN  IF nameSpan # NoElement /\ els[nameSpan].text # "" /\ name # ""
         /\ ~startsWith(name, "@")
      THEN name
      ELSE IF doc.metaAuthor # "" THEN doc.metaAuthor
      ELSE IF groupEnds # {} THEN trim(SubSeq(pageTitle, 1, First(groupEnds) - 1))
      ELSE ""

extractAuthor(doc) ==
  LET els == doc.els
      userNameEl == querySelector(els, 0, ById("User-Name"))
      nameSpan == IF userNameEl = NoElement THEN NoElement
                  ELSE querySelector(els, userNameEl, Css("span > span"))
      name == trim(innerText(els, nameSpan))
      pageTitle == doc.title
      groupEnds == {q \in 2..RunEnd(pageTitle, 1, "any") :
                      MatchEnds(titleTail, pageTitle, {q}) # {}}
  IN  IF nameSpan # NoElement /\ els[nameSpan].text # "" /\ name # ""
         /\ ~startsWith(name, "@")
      THEN name
      ELSE IF groupEnds # {} THEN trim(SubSeq(pageTitle, 1, First(groupEnds) - 1))
      ELSE IF doc.metaAuthor # "" THEN doc.metaAuthor
      ELSE ""

ARTICLE_MIN_TEXT_LENGTH == 10
TITLE_MAX_LENGTH == 150
FALLBACK_MIN_TWEET_LENGTH == 20
FALLBACK_MIN_LANG_LENGTH == 30

\* paragraphs[0] && paragraphs[0].length < 150 ? paragraphs[0] : content.title
titleFromFirst(paragraphs, title) ==
  IF Len(paragraphs) > 0 /\ paragraphs[1] # "" /\ Len(paragraphs[1]) < TITLE_MAX_LENGTH
  THEN paragraphs[1]
  ELSE title

\* the loop of extractThreadContent over the tweetText elements
RECURSIVE threadParagraphs(_, _, _)
threadParagraphs(els, tweetTexts, paragraphs) ==
  IF Len(tweetTexts) = 0 THEN paragraphs
  ELSE LET tweetText == Head(tweetTexts)
           text == trim(els[tweetText].text)
       IN  IF closest(els, tweetText, ById("quoteTweet"))
           THEN threadParagraphs(els, Tail(tweetTexts), paragraphs)
           ELSE IF text # "" /\ text \notin Range(paragraphs)
           THEN threadParagraphs(els, Tail(tweetTexts), Append(paragraphs, text))
           ELSE threadParagraphs(els, Tail(tweetTexts), paragraphs)

extractThreadContent(doc, content) ==
  LET els == doc.els
      primaryColumn == querySelector(els, 0, ById("primaryColumn"))
      paragraphs ==
        threadParagraphs(els,
          InOrder(querySelectorAll(els, primaryColumn, ById("tweetText"))), <<>>)
  IN  IF primaryColumn = NoElement THEN content
      ELSE [content EXCEPT !.paragraphs = paragraphs,
                           !.body = join(paragraphs, "\n\n"),
                           !.title = titleFromFirst(paragraphs, content.title)]

\* the loop over the longform elements without the skip of media cards
RECURSIVE longformParagraphs_KeepsCards(_, _, _)
longformParagraphs_KeepsCards(els, contentElements, paragraphs) ==
  IF Len(contentElements) = 0 THEN paragraphs
  ELSE LET el == Head(contentElements)
           text == trim(els[el].text)
           skip == \/ closest(els, el, ById("tweetPhoto"))
                   \/ closest(els, el, Css("[role=link][href*=/status/]"))
                   \/ els[el].tag \in {"img", "video"}
       IN  IF ~skip /\ text # "" /\ Len(text) > 0 /\ ~isButtonText(text)
           THEN longformParagraphs_KeepsCards(els, Tail(contentElements),
                                              Append(paragraphs, text))
           ELSE longformParagraphs_KeepsCards(els, Tail(contentElements), paragraphs)

\* the loop of extractStatusContent over the longform elements
RECURSIVE longformParagraphs(_, _, _)
longformParagraphs(els, contentElements, paragraphs) ==
  IF Len(contentElements) = 0 THEN paragraphs
  ELSE LET el == Head(contentElements)
           text == trim(els[el].text)
           skip == \/ closest(els, el, ById("card.wrapper"))
                   \/ closest(els, el, ById("tweetPhoto"))
                   \/ closest(els, el, Css("[role=link][href*=/status/]"))
                   \/ els[el].tag \in {"img", "video"}
       IN  IF ~skip /\ text # "" /\ Len(text) > 0 /\ ~isButtonText(text)
           THEN longformParagraphs(els, Tail(contentElements), Append(paragraphs, text))
           ELSE longformParagraphs(els, Tail(contentElements), paragraphs)

\* the loop of extractStatusContent over the lines of the container's text
RECURSIVE lineParagraphs(_, _)
lineParagraphs(lines, paragraphs) ==
  IF Len(lines) = 0 THEN paragraphs
  ELSE LET text == trim(Head(lines))
       IN  IF text # "" /\ Len(text) > 0 /\ ~isButtonText(text)
           THEN lineParagraphs(Tail(lines), Append(paragraphs, text))
           ELSE lineParagraphs(Tail(lines), paragraphs)

extractStatusContent(doc, content0) ==
  LET els == doc.els
      content == [content0 EXCEPT !.author = extractAuthor(doc)]
      articleReadView == querySelector(els, 0, ById("twitterArticleReadView"))
      contentElements ==
        InOrder(querySelectorAll(els, articleReadView,
          Css("[class*=longform-], .public-DraftStyleDefault-ul, .public-DraftStyleDefault-ol")))
      longform == longformParagraphs(els, contentElements, <<>>)
      paragraphs ==
        IF Len(longform) = 0
        THEN lineParagraphs(split(innerText(els, articleReadView), "\n"), <<>>)
        ELSE longform
  IN  IF articleReadView # NoElement /\ Len(paragraphs) > 0
      THEN [content EXCEPT !.paragraphs = paragraphs,
                           !.body = join(paragraphs, "\n\n"),
                           !.title = titleFromFirst(paragraphs, content.title)]
      ELSE extractThreadContent(doc, content)

\* the loop of extractArticleContent over the paragraph elements
RECURSIVE articleParagraphs(_, _, _)
articleParagraphs(els, paragraphEls, paragraphs) ==
  IF Len(paragraphEls) = 0 THEN paragraphs
  ELSE LET el == Head(paragraphEls)
           text == cleanText(els[el].text)
       IN  IF /\ text # ""
              /\ Len(text) > ARTICLE_MIN_TEXT_LENGTH
              /\ text \notin Range(paragraphs)
              /\ ~isUIElement(els, el, text)
           THEN articleParagraphs(els, Tail(paragraphEls), Append(paragraphs, text))
           ELSE articleParagraphs(els, Tail(paragraphEls), paragraphs)

extractArticleContent(doc, content) ==
  LET els == doc.els
      byId == querySelector(els, 0, ById("article"))
      byViewer == querySelector(els, 0, ById("articleViewer"))
      articleContainer ==
        IF byId # NoElement THEN byId
        ELSE IF byViewer # NoElement THEN byViewer
        ELSE querySelector(els, 0, Css("article"))
      titleEl == querySelector(els, articleContainer, Css("h1, h2, [role=heading]"))
      paragraphs ==
        articleParagraphs(els,
          InOrder(querySelectorAll(els, articleContainer,
                    Css("p, [data-testid=tweetText], div[dir=auto][lang]"))), <<>>)
  IN  IF articleContainer = NoElement THEN extractStatusContent(doc, content)
      ELSE [content EXCEPT
              !.title = IF titleEl # NoElement THEN trim(els[titleEl].text) ELSE content.title,
              !.author = extractAuthor(doc),
              !.paragraphs = paragraphs,
              !.body = join(paragraphs, "\n\n")]

extractContent(path, doc) ==
  IF includes(path, "/article/")
  THEN extractArticleContent(doc, emptyContent)
  ELSE extractStatusContent(doc, emptyContent)

\* the loops of extractFallbackContent: candidates longer than minLength
RECURSIVE fallbackParagraphs(_, _, _, _)
fallbackParagraphs(els, candidates, minLength, paragraphs) ==
  IF Len(candidates) = 0 THEN paragraphs
  ELSE LET el == Head(candidates)
           text == extractTextFromElement(els, el)
       IN  IF closest(els, el, ById("quoteTweet"))
           THEN fallbackParagraphs(els, Tail(candidates), minLength, paragraphs)
           ELSE IF /\ text # ""
                   /\ Len(text) > minLength
                   /\ text \notin Range(paragraphs)
                   /\ ~isUIElement(els, el, text)
           THEN fallbackParagraphs(els, Tail(candidates), minLength, Append(paragraphs, text))
           ELSE fallbackParagraphs(els, Tail(candidates), minLength, paragraphs)

extractFallbackContent(doc) ==
  LET els == doc.els
      column == querySelector(els, 0, ById("primaryColumn"))
      primaryColumn == IF column # NoElement THEN column
                       ELSE querySelector(els, 0, Css("main"))
      fromTweets ==
        fallbackParagraphs(els,
          InOrder(querySelectorAll(els, primaryColumn, ById("tweetText"))),
          FALLBACK_MIN_TWEET_LENGTH, <<>>)
      paragraphs ==
        IF Len(fromTweets) = 0
        THEN fallbackParagraphs(els,
               InOrder(querySelectorAll(els, primaryColumn, Css("div[lang]"))),
               FALLBACK_MIN_LANG_LENGTH, <<>>)
        ELSE fromTweets
      content == [emptyContent EXCEPT !.author = extractAuthor(doc)]
  IN  IF primaryColumn = NoElement THEN content
      ELSE [content EXCEPT !.paragraphs = paragraphs,
                           !.body = join(paragraphs, "\n\n")]

\* the parts with the author line put first whether there is an author or not
readableParts_AlwaysAuthor(content) ==
  <<"Article by " \o content.author>> \o content.paragraphs

\* parts.join('\n\n') with the author line first when there is an author
readableParts(content) ==
  (IF content.author # "" THEN <<"Article by " \o content.author>> ELSE <<>>)
    \o content.paragraphs

\* getReadableText without the fallback extraction
getReadableText_NoFallback(path, doc) ==
  With(extractContent(path, doc), LAMBDA content :
    IF Len(content.paragraphs) = 0 THEN <<>>
    ELSE <<join(readableParts(content), "\n\n")>>)

\* <<text>>, or <<>> for null
getReadableText(path, doc) ==
  With(extractContent(path, doc), LAMBDA content :
    IF Len(content.paragraphs) = 0
    THEN With(extractFallbackContent(doc), LAMBDA fallbackContent :
           IF Len(fallbackContent.paragraphs) > 0
           THEN <<join(readableParts(fallbackContent), "\n\n")>>
           ELSE <<>>)
    ELSE <<join(readableParts(content), "\n\n")>>)

getStructuredContent(path, doc) == extractContent(path, doc)

(***************************************************************************)
(* The page: the host application renders pieces of the document and       *)
(* changes the path; the content script calls the parser.                  *)
(***************************************************************************)
\* the items a document holds at most, the two shell elements aside
MaxItems == 3

FillerBlock == "xxxxxxxxxxxxxxxxxxxxxxxxxxxxxxxxxxxxxxxxxxxxxxxxxxxxxxxxxxxxxxxx"

\* n filler characters
RECURSIVE Filler(_)
Filler(n) ==
  IF n <= Len(FillerBlock) THEN SubSeq(FillerBlock, 1, n)
  ELSE Filler(n \div 2) \o Filler(n - (n \div 2))

\* a text of n characters that starts with prefix
Text(prefix, n) == prefix \o Filler(n - Len(prefix))

\* a piece of markup: elements in document order, parent 0 being the element
\* the piece is attached to, parent k > 0 the k-th element of the piece
TweetMarkup(href, name, text) ==
  << [Element EXCEPT !.tag = "article", !.testid = "tweet"],
     [Element EXCEPT !.testid = "User-Name", !.parent = 1],
     [Element EXCEPT !.tag = "a", !.href = href, !.parent = 2],
     [Element EXCEPT !.tag = "span", !.text = name, !.parent = 3],
     [Element EXCEPT !.tag = "span", !.text = name, !.parent = 4],
     [Element EXCEPT !.testid = "tweetText", !.lang = TRUE, !.dir = "auto",
                     !.text = text, !.parent = 1] >>

\* a piece wrapped in one more element
Wrapped(wrapper, piece) ==
  <<wrapper>> \o [k \in 1..Len(piece) |-> [piece[k] EXCEPT !.parent = @ + 1]]

QuotedMarkup(piece) == Wrapped([Element EXCEPT !.testid = "quoteTweet"], piece)

TestIdMarkup(id) == << [Element EXCEPT !.testid = id] >>

SpanMarkup(text) == << [Element EXCEPT !.tag = "span", !.text = text] >>

mainIndex(els) == querySelector(els, 0, Css("main"))
primaryIndex(els) == querySelector(els, 0, ById("primaryColumn"))

\* the index of the element a piece is attached to (0: the body), -1 if absent
TargetIndex(els, target) ==
  CASE target = "body" -> 0
    [] target = "main" -> IF mainIndex(els) = NoElement THEN -1 ELSE mainIndex(els)
    [] target = "primaryColumn" ->
         IF primaryIndex(els) = NoElement THEN -1 ELSE primaryIndex(els)

\* the index of the last element inside at, or at itself
LastInside(els, at) ==
  IF at = 0 THEN Len(els)
  ELSE LET S == {i \in 1..Len(els) : IsInside(els, i, at)}
       IN  IF S = {} THEN at ELSE CHOOSE i \in S : \A j \in S : j <= i

\* the document with the piece appended as the last child of element at
AppendChild(els, at, piece) ==
  LET pos == LastInside(els, at)
      n == Len(piece)
      shift(q) == IF q > pos THEN q + n ELSE q
  IN  [i \in 1..(Len(els) + n) |->
         IF i <= pos THEN els[i]
         ELSE IF i <= pos + n
              THEN [piece[i - pos] EXCEPT !.parent = IF @ = 0 THEN at ELSE pos + @]
              ELSE [els[i - n] EXCEPT !.parent = shift(@)]]

\* the items of the document: the elements directly under the body, the main
\* element or the primary column, these two aside
Items(els) ==
  LET shell == {mainIndex(els), primaryIndex(els)}
  IN  {i \in 1..Len(els) : els[i].parent \in ({0} \cup shell) /\ i \notin shell}

NoCall == [op |-> "none", val |-> FALSE]

\* the host page renders its main element
RenderMain ==
  /\ mainIndex(document.els) = NoElement
  /\ document' = [document EXCEPT
                    !.els = AppendChild(@, 0, << [Element EXCEPT !.tag = "main"] >>)]
  /\ ret' = NoCall
  /\ UNCHANGED pathname
  /\ UNCHANGED <<controller, tts, listener>>

\* the host page renders the primary column, inside the main element if there is one
RenderPrimaryColumn ==
  /\ primaryIndex(document.els) = NoElement
  /\ document' = [document EXCEPT
                    !.els = AppendChild(@, mainIndex(@), TestIdMarkup("primaryColumn"))]
  /\ ret' = NoCall
  /\ UNCHANGED pathname
  /\ UNCHANGED <<controller, tts, listener>>

\* the host page renders one more item
Render(piece, target) ==
  /\ TargetIndex(document.els, target) >= 0
  /\ Cardinality(Items(document.els)) < MaxItems
  /\ document' = [document EXCEPT
                    !.els = AppendChild(@, TargetIndex(@, target), piece)]
  /\ ret' = NoCall
  /\ UNCHANGED pathname
  /\ UNCHANGED <<controller, tts, listener>>

\* the single-page application changes the path; the document stays as it is
Navigate(path) ==
  /\ path # pathname
  /\ pathname' = path
  /\ ret' = NoCall
  /\ UNCHANGED document
  /\ UNCHANGED <<controller, tts, listener>>

CallIsArticlePage ==
  /\ ret' = [op |-> "isArticlePage", val |-> isArticlePage(pathname, document)]
  /\ UNCHANGED <<pathname, document>>
  /\ UNCHANGED <<controller, tts, listener>>

CallGetReadableText ==
  /\ ret' = [op |-> "getReadableText", val |-> getReadableText(pathname, document)]
  /\ UNCHANGED <<pathname, document>>
  /\ UNCHANGED <<controller, tts, listener>>

CallGetStructuredContent ==
  /\ ret' = [op |-> "getStructuredContent",
             val |-> getStructuredContent(pathname, document)]
  /\ UNCHANGED <<pathname, document>>
  /\ UNCHANGED <<controller, tts, listener>>

\* the host page sets the document title
SetTitle(title) ==
  /\ title # document.title
  /\ document' = [document EXCEPT !.title = title]
  /\ ret' = NoCall
  /\ UNCHANGED pathname
  /\ UNCHANGED <<controller, tts, listener>>

\* the host page sets, or removes, the content of the author meta tag
SetMetaAuthor(content) ==
  /\ content # document.metaAuthor
  /\ document' = [document EXCEPT !.metaAuthor = content]
  /\ ret' = NoCall
  /\ UNCHANGED pathname
  /\ UNCHANGED <<controller, tts, listener>>

\* the caller calls once more, the document and the path being as they were at
\* the call before; the result records that it is the result of a second call
RepeatIsArticlePage ==
  /\ ret.op = "isArticlePage"
  /\ ret' = [op |-> "isArticlePage", val |-> isArticlePage(pathname, document),
             again |-> TRUE]
  /\ UNCHANGED <<pathname, document>>
  /\ UNCHANGED <<controller, tts, listener>>

\* getReadableText that takes the elements it has read out of the document
RepeatGetReadableText_Consuming ==
  /\ ret.op = "getReadableText"
  /\ ret' = [op |-> "getReadableText", val |-> getReadableText(pathname, document),
             again |-> TRUE]
  /\ document' = [document EXCEPT !.els = <<>>]
  /\ UNCHANGED pathname
  /\ UNCHANGED <<controller, tts, listener>>

RepeatGetReadableText ==
  /\ ret.op = "getReadableText"
  /\ ret' = [op |-> "getReadableText", val |-> getReadableText(pathname, document),
             again |-> TRUE]
  /\ UNCHANGED <<pathname, document>>
  /\ UNCHANGED <<controller, tts, listener>>

EmptyDocument == [title |-> "", metaAuthor |-> "", els |-> <<>>]

(***************************************************************************)
(* The speech module (TTS, listed in src/README.md) and the player         *)
(* controller (src/content/content.js)                                     *)
(*                                                                         *)
(* speechSynthesis is the queue of the utterances handed to it, the first  *)
(* being the one spoken, and its paused flag.  As the Web Speech API has   *)
(* it, cancel() empties the queue and leaves the paused flag as it is,     *)
(* speak() appends to the queue and leaves the paused flag as it is, and a *)
(* cancelled utterance gets an error event (interrupted, canceled), which  *)
(* the onerror handler of speakChunk ignores.  The player element hangs    *)
(* under the body and carries none of the marks the parser looks for, so   *)
(* it is kept in the controller's state and not among the elements of the  *)
(* document.  The address of the page is its path.                         *)
(***************************************************************************)
MAX_CHUNK_LENGTH == 4000

Terminators == {".", "!", "?"}

\* /\n\n+/ matches at position b of text
BreakAt(text, b) == b < Len(text) /\ Char(text, b) = "\n" /\ Char(text, b + 1) = "\n"

\* the first position from from on at which /\n\n+/ matches, past the end if none
NextBreak(text, from) ==
  CHOOSE b \in from..(Len(text) + 1) :
    /\ b > Len(text) \/ BreakAt(text, b)
    /\ \A k \in from..(b - 1) : ~BreakAt(text, k)

\* the first position from from on that holds no line break
BreakEnd(text, from) ==
  CHOOSE e \in from..(Len(text) + 1) :
    /\ e > Len(text) \/ Char(text, e) # "\n"
    /\ \A k \in from..(e - 1) : Char(text, k) = "\n"

\* the first position from from on that holds a terminator (yes) or none (~yes)
NextTerminator(para, from, yes) ==
  CHOOSE p \in from..(Len(para) + 1) :
    /\ p > Len(para) \/ ((Char(para, p) \in Terminators) = yes)
    /\ \A k \in from..(p - 1) : (Char(para, k) \in Terminators) # yes

\* String.prototype.match(/[^.!?]+[.!?]+/g) from position from on
RECURSIVE matchSentences(_, _)
matchSentences(para, from) ==
  With(NextTerminator(para, from, FALSE), LAMBDA p :
    With(NextTerminator(para, p, TRUE), LAMBDA q :
      With(NextTerminator(para, q, FALSE), LAMBDA r :
        IF p > Len(para) \/ q > Len(para) THEN <<>>
        ELSE <<SubSeq(para, p, r - 1)>> \o matchSentences(para, r))))

\* the loop of splitIntoChunks over the sentences of a long paragraph
RECURSIVE sentenceChunks(_, _, _)
sentenceChunks(sentences, currentChunk, chunks) ==
  IF Len(sentences) = 0
  THEN IF trim(currentChunk) # "" THEN Append(chunks, trim(currentChunk)) ELSE chunks
  ELSE With(Head(sentences), LAMBDA sentence :
         IF Len(currentChunk) + Len(sentence) > MAX_CHUNK_LENGTH
         THEN With(IF trim(currentChunk) # "" THEN Append(chunks, trim(currentChunk))
                   ELSE chunks,
                   LAMBDA pushed : sentenceChunks(Tail(sentences), sentence, pushed))
         ELSE With(currentChunk \o sentence,
                   LAMBDA joined : sentenceChunks(Tail(sentences), joined, chunks)))

\* the chunks that splitIntoChunks makes of one paragraph
paragraphChunks(para) ==
  IF Len(trim(para)) = 0 THEN <<>>
  ELSE IF Len(para) <= MAX_CHUNK_LENGTH THEN <<trim(para)>>
  ELSE With(matchSentences(para, 1), LAMBDA matched :
         sentenceChunks(IF Len(matched) = 0 THEN <<para>> ELSE matched, "", <<>>))

\* the loop of splitIntoChunks over the pieces of text.split(/\n\n+/), from
\* position from on
RECURSIVE chunksFrom(_, _)
chunksFrom(text, from) ==
  IF from > Len(text) THEN <<>>
  ELSE With(NextBreak(text, from), LAMBDA b :
         With(SubSeq(text, from, b - 1), LAMBDA para :
           With(BreakEnd(text, b), LAMBDA e :
             paragraphChunks(para) \o chunksFrom(text, e))))

splitIntoChunks(text) == With(text, LAMBDA t : chunksFrom(t, 1))

\* let currentRate = 0.85, and the limits of setRate, in hundredths
DEFAULT_RATE == 85

MIN_RATE == 50

MAX_RATE == 200

InitTTS ==
  [isPlaying |-> FALSE, isPaused |-> FALSE, textChunks |-> <<>>,
   currentChunkIndex |-> 0,
   queue |-> <<>>,      \* speechSynthesis: the utterances, the spoken one first
   paused |-> FALSE,    \* speechSynthesis.paused
   speaks |-> <<>>,     \* the calls of speak that await initVoice
   timers |-> <<>>,     \* the 100 ms timers of jumpToParagraph
   currentRate |-> DEFAULT_RATE,   \* in hundredths
   endOnCancel |-> FALSE,   \* the browser ends a cancelled utterance with an
                            \* end event (older Chrome) and not with the error
                            \* event 'interrupted' (Web Speech API)
   late |-> 0]          \* the end events of cancelled utterances still to come

InitController ==
  [lastUrl |-> "", manuallyClosed |-> FALSE,
   player |-> "absent",      \* absent, hidden (display none) or visible
   poll |-> FALSE,           \* the 500 ms timer of checkAndUpdatePlayer is set
   popstate |-> FALSE,       \* the 500 ms timer of a check made on popstate is set
   ui |-> "stopped",         \* what updateUI has set last: stopped, playing, paused
   currentChunks |-> <<>>]   \* the paragraphs the transcript shows

\* what an observer of the player has seen: the last act of the user, the
\* chunks heard and the callbacks delivered since, and the address at which
\* the player was closed by hand
InitListener ==
  [clicked |-> <<>>, heard |-> {}, log |-> <<>>, closedAt |-> <<>>,
   stopped |-> FALSE]   \* stop() has run and speak() has not been called since

InitPlayer ==
  /\ controller = InitController
  /\ tts = InitTTS
  /\ listener = InitListener

(***************************************************************************)
(* Thread detection on status pages                                        *)
(***************************************************************************)
ThreadPaths == {"/alice/status/123", "/Alice/status/123", "//status/7"}

ThreadPieces ==
  { TweetMarkup("/alice", "Alice", Text("a", 280)),
    TweetMarkup("/alice", "Alice", Text("b", 281)),
    TweetMarkup("/alice", "Alice", Text("c", 120)),
    TweetMarkup("/Alice/status/5", "Alice", Text("d", 119)),
    TweetMarkup("/alice", "Alice", Text("e", 10000)),
    TweetMarkup("/bob", "Bob", "Short reply"),
    QuotedMarkup(TweetMarkup("/alice", "Alice", Text("q", 400))) }

InitThread ==
  /\ pathname \in ThreadPaths
  /\ document = EmptyDocument
  /\ ret = NoCall
  /\ InitPlayer

NextThread ==
  \/ RenderPrimaryColumn
  \/ \E piece \in ThreadPieces : Render(piece, "primaryColumn")
  \/ \E path \in ThreadPaths : Navigate(path)
  \/ CallIsArticlePage

SpecThread == InitThread /\ [][NextThread]_vars

(***************************************************************************)
(* The path checks of isArticlePage                                        *)
(***************************************************************************)
PathPaths ==
  {"/alice/status/123", "/alice/article/5", "/i/articles/9", "/home",
   "/alice/status/x1", "/alice/status/"}

At(piece, target) == [piece |-> piece, target |-> target]

PathPlacements ==
  { At(TestIdMarkup("article-cover"), "primaryColumn"),
    At(SpanMarkup("Article"), "primaryColumn"),
    At(TestIdMarkup("tweet-text-show-more-link"), "primaryColumn"),
    At(TweetMarkup("/alice", "Alice", Text("long", 300)), "primaryColumn"),
    At(TweetMarkup("/alice", "Alice", Text("more", 300)), "body") }

InitPath ==
  /\ pathname \in PathPaths
  /\ document = EmptyDocument
  /\ ret = NoCall
  /\ InitPlayer

NextPath ==
  \/ RenderPrimaryColumn
  \/ \E p \in PathPlacements : Render(p.piece, p.target)
  \/ \E path \in PathPaths : Navigate(path)
  \/ CallIsArticlePage

SpecPath == InitPath /\ [][NextPath]_vars

(***************************************************************************)
(* The structural signals of isArticlePage on status pages                 *)
(***************************************************************************)
DetectPaths == {"/alice/status/123", "/bob/status/9"}

DetectPlacements ==
  { At(TestIdMarkup("noteContent"), "primaryColumn"),
    At(TestIdMarkup("articleViewer"), "body"),
    At(SpanMarkup(" Notes "), "primaryColumn"),
    At(SpanMarkup("Article"), "primaryColumn"),
    At(TestIdMarkup("tweet-text-show-more-link"), "primaryColumn"),
    At(TestIdMarkup("tweet-text-show-more-link"), "body"),
    At(TweetMarkup("/bob", "Bob", "Short reply"), "primaryColumn"),
    At(TweetMarkup("/alice", "Alice", Text("long", 300)), "body") }

InitDetect ==
  /\ pathname \in DetectPaths
  /\ document = EmptyDocument
  /\ ret = NoCall
  /\ InitPlayer

NextDetect ==
  \/ RenderPrimaryColumn
  \/ \E p \in DetectPlacements : Render(p.piece, p.target)
  \/ \E path \in DetectPaths : Navigate(path)
  \/ CallIsArticlePage

SpecDetect == InitDetect /\ [][NextDetect]_vars

(***************************************************************************)
(* Extraction                                                              *)
(***************************************************************************)
ExtractPaths == {"/alice/status/1", "/alice/article/5"}

HelloText == "Hello world, this is a short test post."

LongformMarkup(text) == << [Element EXCEPT !.cls = "longform-unstyled", !.text = text] >>

ReadViewMarkup(blocks) ==
  Wrapped([Element EXCEPT !.testid = "twitterArticleReadView"], blocks)

LangMarkup(text) == << [Element EXCEPT !.lang = TRUE, !.text = text] >>

ExtractPlacements ==
  { At(TweetMarkup("/alice", "Alice", HelloText), "primaryColumn"),
    At(TweetMarkup("/bob", "Bob", Text("b", 500)), "primaryColumn"),
    At(TweetMarkup("/alice", "Alice", Text("c", 380)), "primaryColumn"),
    At(TweetMarkup("/alice", "Alice", "Like"), "primaryColumn"),
    At(ReadViewMarkup(LongformMarkup("The same block of text")
                        \o LongformMarkup("The same block of text")), "primaryColumn") }

InitExtract ==
  /\ pathname \in ExtractPaths
  /\ document = EmptyDocument
  /\ ret = NoCall
  /\ InitPlayer

NextExtract ==
  \/ RenderPrimaryColumn
  \/ \E p \in ExtractPlacements : Render(p.piece, p.target)
  \/ \E path \in ExtractPaths : Navigate(path)
  \/ CallGetReadableText
  \/ CallGetStructuredContent

SpecExtract == InitExtract /\ [][NextExtract]_vars

(***************************************************************************)
(* The fallback extraction of getReadableText                              *)
(***************************************************************************)
FallbackPlacements ==
  { At(TweetMarkup("/alice", "Alice", HelloText), "main"),
    At(TweetMarkup("/alice", "Alice", HelloText), "primaryColumn"),
    At(TweetMarkup("/alice", "Alice", "Like"), "primaryColumn"),
    At(LangMarkup("A block of text that is marked with a language"), "primaryColumn"),
    At(LangMarkup("Too short for the fallback"), "main"),
    At(ReadViewMarkup(LongformMarkup("Reply")), "body") }

InitFallback ==
  /\ pathname \in ExtractPaths
  /\ document = EmptyDocument
  /\ ret = NoCall
  /\ InitPlayer

NextFallback ==
  \/ RenderMain
  \/ RenderPrimaryColumn
  \/ \E p \in FallbackPlacements : Render(p.piece, p.target)
  \/ \E path \in ExtractPaths : Navigate(path)
  \/ CallGetReadableText
  \/ CallGetStructuredContent

SpecFallback == InitFallback /\ [][NextFallback]_vars

(***************************************************************************)
(* Repeated calls on an unchanged page                                     *)
(***************************************************************************)
RepeatPlacements ==
  { At(TweetMarkup("/alice", "Alice", HelloText), "primaryColumn"),
    At(TweetMarkup("/alice", "Alice", Text("b", 281)), "primaryColumn"),
    At(SpanMarkup("Article"), "primaryColumn"),
    At(ReadViewMarkup(LongformMarkup("The same block of text")), "primaryColumn"),
    At(LangMarkup("A block of text that is marked with a language"), "primaryColumn") }

InitRepeat ==
  /\ pathname \in ExtractPaths
  /\ document = EmptyDocument
  /\ ret = NoCall
  /\ InitPlayer

NextRepeat ==
  \/ RenderPrimaryColumn
  \/ \E p \in RepeatPlacements : Render(p.piece, p.target)
  \/ \E path \in ExtractPaths : Navigate(path)
  \/ CallIsArticlePage
  \/ CallGetReadableText
  \/ RepeatIsArticlePage
  \/ RepeatGetReadableText

SpecRepeat == InitRepeat /\ [][NextRepeat]_vars

(***************************************************************************)
(* The author and title signals                                            *)
(***************************************************************************)
AuthorTitles == {"", "Bob on X: hello", "Carol / X: hi", "Home / X"}

AuthorMetas == {"", "Dave"}

AuthorPlacements ==
  { At(TweetMarkup("/alice", "Alice", HelloText), "primaryColumn"),
    At(TweetMarkup("/alice", "@alice", "Another post that is long enough to keep"),
       "primaryColumn"),
    At(TweetMarkup("/alice", "", ""), "primaryColumn") }

InitAuthor ==
  /\ pathname \in ExtractPaths
  /\ document = EmptyDocument
  /\ ret = NoCall
  /\ InitPlayer

NextAuthor ==
  \/ RenderPrimaryColumn
  \/ \E p \in AuthorPlacements : Render(p.piece, p.target)
  \/ \E title \in AuthorTitles : SetTitle(title)
  \/ \E content \in AuthorMetas : SetMetaAuthor(content)
  \/ \E path \in ExtractPaths : Navigate(path)
  \/ CallIsArticlePage
  \/ CallGetReadableText
  \/ CallGetStructuredContent

SpecAuthor == InitAuthor /\ [][NextAuthor]_vars

(***************************************************************************)
(* The handlers of the speech module and of the player                     *)
(***************************************************************************)
\* speechSynthesis.cancel(): the queue is emptied; the utterance that was
\* being spoken gets the error event 'interrupted', which onerror ignores, or,
\* where the browser ends it instead, an end event that is delivered later
cancel(t) ==
  [t EXCEPT !.queue = <<>>,
            !.late = IF t.endOnCancel /\ Len(t.queue) > 0 /\ Head(t.queue).started
                     THEN @ + 1 ELSE @]

speakChunk(t, chunkIndex) ==
  IF chunkIndex >= Len(t.textChunks)
  THEN [t EXCEPT !.isPlaying = FALSE, !.isPaused = FALSE]
  ELSE [t EXCEPT !.queue = Append(@, [chunk |-> chunkIndex, started |-> FALSE])]

\* stop that leaves isPaused as it is
stop_KeepsPaused(t) ==
  [cancel(t) EXCEPT !.isPlaying = FALSE, !.currentChunkIndex = 0]

stop(t) ==
  [cancel(t) EXCEPT !.isPlaying = FALSE, !.isPaused = FALSE, !.currentChunkIndex = 0]

\* speak up to its await: the rest runs when initVoice has resolved; after is
\* what the caller chained to the promise (<<i>>: skip to chunk i 100 ms later).
\* The call is kept with the chunks of its text, which the rest of speak
\* computes from the text alone.
speak(t, text, after) ==
  [stop(t) EXCEPT
     !.speaks = Append(@, [chunks |-> splitIntoChunks(text), after |-> after])]

pause(t) ==
  IF t.isPlaying /\ ~t.isPaused
  THEN [t EXCEPT !.paused = TRUE, !.isPaused = TRUE]
  ELSE t

resume(t) ==
  IF t.isPlaying /\ t.isPaused
  THEN [t EXCEPT !.paused = FALSE, !.isPaused = FALSE]
  ELSE t

togglePause(t) == IF t.isPaused THEN resume(t) ELSE pause(t)

skipNext(t) ==
  IF ~t.isPlaying \/ t.currentChunkIndex >= Len(t.textChunks) - 1 THEN t
  ELSE speakChunk([cancel(t) EXCEPT !.currentChunkIndex = @ + 1],
                  t.currentChunkIndex + 1)

skipToChunk(t, index) ==
  IF index < 0 \/ index >= Len(t.textChunks) THEN t
  ELSE LET moved == [cancel(t) EXCEPT !.currentChunkIndex = index]
       IN  IF t.isPlaying THEN speakChunk(moved, index) ELSE moved

skipPrevious(t) ==
  IF ~t.isPlaying \/ t.currentChunkIndex <= 0 THEN t
  ELSE speakChunk([cancel(t) EXCEPT !.currentChunkIndex = @ - 1],
                  t.currentChunkIndex - 1)

\* Math.max(0.5, Math.min(2.0, rate)), in hundredths
clampRate(rate) ==
  IF rate < MIN_RATE THEN MIN_RATE ELSE IF rate > MAX_RATE THEN MAX_RATE ELSE rate

\* setRate: the chunk being read is started again when the rate has changed
setRate(t, rate) ==
  LET set == [t EXCEPT !.currentRate = clampRate(rate)]
  IN  IF t.isPlaying /\ ~t.isPaused /\ t.currentRate # clampRate(rate)
         /\ Len(t.textChunks) > 0
      THEN speakChunk(cancel(set), set.currentChunkIndex)
      ELSE set

\* utterance.onend
onend(t) ==
  LET ended == [t EXCEPT !.currentChunkIndex = @ + 1]
  IN  IF ~ended.isPaused /\ ended.isPlaying
      THEN speakChunk(ended, ended.currentChunkIndex)
      ELSE ended

\* utterance.onerror with an error other than 'interrupted' and 'canceled'
onerror(t) ==
  LET failed == [t EXCEPT !.currentChunkIndex = @ + 1]
  IN  IF failed.isPlaying /\ failed.currentChunkIndex < Len(failed.textChunks)
      THEN speakChunk(failed, failed.currentChunkIndex)
      ELSE failed

\* showPlayer and hidePlayer on the controller's state; hidePlayer also stops
\* the speech (stopReading)
showPlayer(c) == [c EXCEPT !.player = "visible"]

\* updateUI returns at once when the player has no Play button
updateUI(c, state) == IF c.player = "absent" THEN c ELSE [c EXCEPT !.ui = state]

hidePlayer(c, isManualClose) ==
  [updateUI(c, "stopped") EXCEPT
     !.player = IF @ = "absent" THEN "absent" ELSE "hidden",
     !.manuallyClosed = IF isManualClose THEN TRUE ELSE @]

\* hidePlayer that leaves the speech as it is
stopOnHide_Keeps(t) == t

\* the stopReading of hidePlayer on the speech module
stopOnHide(t) == stop(t)

\* the user has not yet made the click after which nothing more is done
Acting == listener.clicked = <<>>

\* no call of speak awaits initVoice and no timer of jumpToParagraph is set:
\* the user's next click comes later than that
Settled == tts.speaks = <<>> /\ tts.timers = <<>>

\* the rest of speak, once initVoice has resolved, and the callback chained
\* to it, which sets the 100 ms timer
speakResolved(t) ==
  LET call == Head(t.speaks)
      chunks == call.chunks
      loaded == [t EXCEPT !.speaks = Tail(@), !.textChunks = chunks,
                          !.currentChunkIndex = 0]
      spoken == IF Len(chunks) = 0 THEN loaded
                ELSE speakChunk([loaded EXCEPT !.isPlaying = TRUE, !.isPaused = FALSE], 0)
  IN  IF call.after = <<>> THEN spoken
      ELSE [spoken EXCEPT !.timers = Append(@, call.after[1])]

SpeakResolved ==
  /\ Len(tts.speaks) > 0
  /\ tts' = speakResolved(tts)
  /\ UNCHANGED <<pathname, document, ret, controller, listener>>

\* the 100 ms timer of jumpToParagraph fires
JumpTimeout ==
  /\ Len(tts.timers) > 0
  /\ tts' = skipToChunk([tts EXCEPT !.timers = Tail(@)], Head(tts.timers))
  /\ UNCHANGED <<pathname, document, ret, controller, listener>>

\* utterance.onstart that delivers onStart with every chunk
onStartCallbacks_EveryChunk(chunkIndex) ==
  <<[callback |-> "onStart", chunk |-> 0],
    [callback |-> "onChunkChange", chunk |-> chunkIndex]>>

\* the callbacks that utterance.onstart of chunk chunkIndex delivers
onStartCallbacks(chunkIndex) ==
  (IF chunkIndex = 0 THEN <<[callback |-> "onStart", chunk |-> 0]>> ELSE <<>>)
    \o <<[callback |-> "onChunkChange", chunk |-> chunkIndex]>>

\* speakChunk with an index past the last chunk delivers onEnd
onEndDelivered(t, chunkIndex) == chunkIndex >= Len(t.textChunks)

\* utterance.onstart: the first utterance of the queue begins to be spoken;
\* onStart of chunk 0 fills the transcript (updateTranscript)
UtteranceStart ==
  /\ Len(tts.queue) > 0
  /\ ~tts.paused
  /\ ~Head(tts.queue).started
  /\ tts' = [tts EXCEPT !.queue[1].started = TRUE]
  /\ controller' =
       IF Head(tts.queue).chunk = 0 /\ controller.player # "absent"
       THEN [updateUI(controller, "playing") EXCEPT !.currentChunks = tts.textChunks]
       ELSE controller
  /\ listener' =
       IF Acting THEN listener
       ELSE [listener EXCEPT
               !.log = @ \o onStartCallbacks(Head(tts.queue).chunk)]
  /\ UNCHANGED <<pathname, document, ret>>

\* utterance.onend: the utterance has been spoken to its end
UtteranceEnd ==
  /\ Len(tts.queue) > 0
  /\ ~tts.paused
  /\ Head(tts.queue).started
  /\ LET ended == [tts EXCEPT !.queue = Tail(@), !.currentChunkIndex = @ + 1]
         next == ~ended.isPaused /\ ended.isPlaying
         onEnd == next /\ onEndDelivered(ended, ended.currentChunkIndex)
     IN  /\ tts' = IF next THEN speakChunk(ended, ended.currentChunkIndex) ELSE ended
         /\ controller' = IF onEnd THEN updateUI(controller, "stopped") ELSE controller
         /\ listener' =
              IF Acting THEN listener
              ELSE [listener EXCEPT
                      !.heard = @ \cup {Head(tts.queue).chunk},
                      !.log = IF onEnd
                              THEN Append(@, [callback |-> "onEnd",
                                              chunk |-> ended.currentChunkIndex])
                              ELSE @]
  /\ UNCHANGED <<pathname, document, ret>>

\* togglePlay without the pause: the Play button only ever resumes
togglePlaySpeech_NoPause(t, text) ==
  IF t.isPlaying THEN resume(t)
  ELSE IF text # <<>> THEN speak(t, text[1], <<>>)
  ELSE t

\* togglePlay on the speech module; text is what getReadableText() gave
togglePlaySpeech(t, text) ==
  IF t.isPlaying THEN togglePause(t)
  ELSE IF text # <<>> THEN speak(t, text[1], <<>>)
  ELSE t

\* togglePlay on the player: onPause and onResume call updateUI
togglePlayUI(c, t) ==
  IF t.isPlaying THEN updateUI(c, IF t.isPaused THEN "playing" ELSE "paused")
  ELSE c

\* the Play button
togglePlay ==
  /\ Acting
  /\ controller.player = "visible"
  /\ \E text \in {getReadableText(pathname, document)} :
        /\ (~tts.isPlaying /\ text # <<>>) => Settled
        /\ tts' = togglePlaySpeech(tts, text)
  /\ controller' = togglePlayUI(controller, tts)
  /\ UNCHANGED <<pathname, document, ret, listener>>

\* the Stop button
stopReading ==
  /\ Acting
  /\ controller.player = "visible"
  /\ tts' = stop(tts)
  /\ controller' = updateUI(controller, "stopped")
  /\ UNCHANGED <<pathname, document, ret, listener>>

\* the Skip button
skipParagraph ==
  /\ Acting
  /\ controller.player = "visible"
  /\ tts' = skipNext(tts)
  /\ UNCHANGED <<pathname, document, ret, controller, listener>>

\* a click on paragraph index of the transcript; last: the user does nothing
\* after it, and the click finds the speech stopped, playing or ended
jumpToParagraph(index, last) ==
  /\ Acting
  /\ controller.player = "visible"
  /\ index < Len(controller.currentChunks)
  /\ Settled
  /\ last => ~(tts.isPlaying /\ tts.isPaused)
  /\ \E text \in {getReadableText(pathname, document)} :
        IF ~tts.isPlaying
        THEN IF text # <<>>
             THEN tts' = speak(tts, text[1], <<index>>)
             ELSE tts' = tts
        ELSE tts' = skipToChunk(tts, index)
  /\ listener' = IF last THEN [listener EXCEPT !.clicked = <<index>>] ELSE listener
  /\ UNCHANGED <<pathname, document, ret, controller>>

\* the Close button: hidePlayer(true)
closePlayer ==
  /\ Acting
  /\ controller.player = "visible"
  /\ tts' = stopOnHide(tts)
  /\ controller' = hidePlayer(controller, TRUE)
  /\ listener' = [listener EXCEPT !.closedAt = <<pathname>>]
  /\ UNCHANGED <<pathname, document, ret>>

\* the interval's call of checkAndUpdatePlayer when it does not return at
\* once; the 500 ms timer of the call before has fired by then (the interval
\* is 1000 ms)
checkAndUpdatePlayer ==
  /\ ~controller.poll
  /\ ~(pathname = controller.lastUrl /\ controller.player # "absent")
  /\ controller' = [controller EXCEPT
                      !.manuallyClosed = IF pathname # controller.lastUrl THEN FALSE ELSE @,
                      !.lastUrl = pathname,
                      !.poll = TRUE]
  /\ UNCHANGED <<pathname, document, ret, tts, listener>>

\* the 500 ms timer of checkAndUpdatePlayer fires
PollTimeout ==
  /\ controller.poll
  /\ LET isArticle == isArticlePage(pathname, document)
         polled == [controller EXCEPT !.poll = FALSE]
     IN  IF isArticle /\ ~controller.manuallyClosed
         THEN controller' = showPlayer(polled) /\ tts' = tts
         ELSE IF ~isArticle
         THEN controller' = hidePlayer(polled, FALSE) /\ tts' = stopOnHide(tts)
         ELSE controller' = polled /\ tts' = tts
  /\ UNCHANGED <<pathname, document, ret, listener>>

\* a popstate event calls checkAndUpdatePlayer, whatever timer is set; the
\* timer of the popstate before has fired by then
Popstate ==
  /\ ~controller.popstate
  /\ ~(pathname = controller.lastUrl /\ controller.player # "absent")
  /\ controller' = [controller EXCEPT
                      !.manuallyClosed = IF pathname # controller.lastUrl THEN FALSE ELSE @,
                      !.lastUrl = pathname,
                      !.popstate = TRUE]
  /\ UNCHANGED <<pathname, document, ret, tts, listener>>

\* the 500 ms timer of the check made on popstate fires
PopstateTimeout ==
  /\ controller.popstate
  /\ LET isArticle == isArticlePage(pathname, document)
         polled == [controller EXCEPT !.popstate = FALSE]
     IN  IF isArticle /\ ~controller.manuallyClosed
         THEN controller' = showPlayer(polled) /\ tts' = tts
         ELSE IF ~isArticle
         THEN controller' = hidePlayer(polled, FALSE) /\ tts' = stopOnHide(tts)
         ELSE controller' = polled /\ tts' = tts
  /\ UNCHANGED <<pathname, document, ret, listener>>

\* the responses of the message listener
Response(success, message) == [success |-> success, message |-> message]

\* icon-clicked: the player is shown although it is visible already
iconClickedShows_Always(isArticle, c) == isArticle

\* icon-clicked: the branch that shows the player again
iconClickedShows(isArticle, c) == isArticle /\ c.player # "visible"

\* init has made its first check, after which it registers the listener of
\* the messages
Listening == controller.lastUrl # ""

\* the message icon-clicked of the background script
IconClicked ==
  /\ Acting
  /\ Listening
  /\ \E isArticle \in {isArticlePage(pathname, document)} :
        IF ~isArticle
        THEN /\ ret' = [op |-> "icon-clicked",
                        val |-> Response(FALSE,
                          "Open an X Article for the Read Aloud player to appear.")]
             /\ UNCHANGED <<controller, listener>>
        ELSE IF ~iconClickedShows(isArticle, controller)
        THEN /\ ret' = [op |-> "icon-clicked",
                        val |-> Response(TRUE, "Player is already open.")]
             /\ UNCHANGED <<controller, listener>>
        ELSE /\ controller' = showPlayer([controller EXCEPT !.manuallyClosed = FALSE])
             /\ ret' = [op |-> "icon-clicked", val |-> Response(TRUE, "Player opened!")]
             /\ listener' = [listener EXCEPT !.closedAt = <<>>]
  /\ UNCHANGED <<pathname, document, tts>>

\* the message toggle-reading of the background script (the keyboard
\* shortcut); last: the message starts a reading and the user does nothing
\* after it
ToggleReading(last) ==
  /\ Acting
  /\ Listening
  /\ \E isArticle \in {isArticlePage(pathname, document)} :
        IF isArticle
        THEN \E text \in {getReadableText(pathname, document)} :
               /\ (~tts.isPlaying /\ text # <<>>) => Settled
               /\ last => (~tts.isPlaying /\ text # <<>>)
               /\ tts' = togglePlaySpeech(tts, text)
               /\ controller' =
                    togglePlayUI(showPlayer([controller EXCEPT !.manuallyClosed = FALSE]),
                                 tts)
               /\ listener' = [listener EXCEPT
                                 !.closedAt = <<>>,
                                 !.clicked = IF last THEN <<0>> ELSE @]
        ELSE ~last /\ UNCHANGED <<controller, tts, listener>>
  /\ ret' = [op |-> "toggle-reading", val |-> Response(TRUE, "")]
  /\ UNCHANGED <<pathname, document>>

\* the single-page application goes to another page: the path changes and
\* the content of the page before is gone
RouteChange(path) ==
  /\ Acting
  /\ path # pathname
  /\ pathname' = path
  /\ document' = EmptyDocument
  /\ ret' = NoCall
  /\ listener' = [listener EXCEPT !.closedAt = <<>>]
  /\ UNCHANGED <<controller, tts>>

\* a post with a text of two blocks and the link that expands it
PostMarkup ==
  Wrapped(Element,
          TweetMarkup("/alice", "Alice",
                      "The first block of the text.\n\nThe second block of the text.")
            \o TestIdMarkup("tweet-text-show-more-link"))

(***************************************************************************)
(* The player on pages that come and go                                    *)
(***************************************************************************)
ControllerPaths == {"/home", "/alice/status/1", "/bob/status/2"}

InitController_Page ==
  /\ pathname \in ControllerPaths
  /\ document = EmptyDocument
  /\ ret = NoCall
  /\ InitPlayer

NextController ==
  \/ RenderPrimaryColumn
  \/ Render(PostMarkup, "primaryColumn")
  \/ \E path \in ControllerPaths : RouteChange(path)
  \/ checkAndUpdatePlayer
  \/ PollTimeout
  \/ IconClicked
  \/ closePlayer

SpecController == InitController_Page /\ [][NextController]_vars

\* the interval keeps calling and the timers fire
FairController ==
  /\ SpecController
  /\ WF_vars(checkAndUpdatePlayer)
  /\ WF_vars(PollTimeout)

(***************************************************************************)
(* The player, the checks and the messages of the background script        *)
(***************************************************************************)
NextMessages ==
  \/ RenderPrimaryColumn
  \/ Render(PostMarkup, "primaryColumn")
  \/ \E path \in ControllerPaths : RouteChange(path)
  \/ checkAndUpdatePlayer
  \/ PollTimeout
  \/ Popstate
  \/ PopstateTimeout
  \/ IconClicked
  \/ ToggleReading(FALSE)
  \/ closePlayer
  \/ SpeakResolved
  \/ UtteranceStart
  \/ UtteranceEnd

SpecMessages == InitController_Page /\ [][NextMessages]_vars

(***************************************************************************)
(* The transcript of an article page with the player shown                 *)
(***************************************************************************)
TranscriptPath == "/alice/status/1"

TranscriptDocument ==
  [EmptyDocument EXCEPT
     !.els = AppendChild(TestIdMarkup("primaryColumn"), 1, PostMarkup)]

InitTranscript ==
  /\ pathname = TranscriptPath
  /\ document = TranscriptDocument
  /\ ret = NoCall
  /\ controller = [InitController EXCEPT !.lastUrl = TranscriptPath, !.player = "visible"]
  /\ tts = InitTTS
  /\ listener = InitListener

NextTranscript ==
  \/ togglePlay
  \/ stopReading
  \/ skipParagraph
  \/ \E index \in 0..(Len(controller.currentChunks) - 1) :
        \E last \in BOOLEAN : jumpToParagraph(index, last)
  \/ SpeakResolved
  \/ JumpTimeout
  \/ UtteranceStart
  \/ UtteranceEnd

SpecTranscript == InitTranscript /\ [][NextTranscript]_vars

\* the promises resolve, the timers fire and the speech engine speaks what
\* heads its queue unless it is paused
FairTranscript ==
  /\ SpecTranscript
  /\ WF_vars(SpeakResolved)
  /\ WF_vars(JumpTimeout)
  /\ WF_vars(UtteranceStart)
  /\ WF_vars(UtteranceEnd)

(***************************************************************************)
(* A reading from its start to its end                                     *)
(***************************************************************************)
PlaybackPieces ==
  { PostMarkup,
    TweetMarkup("/alice", "Alice", "One more block of the text."),
    TweetMarkup("/alice", "Alice", "Like") }

InitPlayback ==
  /\ pathname = TranscriptPath
  /\ document = EmptyDocument
  /\ ret = NoCall
  /\ controller = [InitController EXCEPT !.lastUrl = TranscriptPath]
  /\ tts = InitTTS
  /\ listener = InitListener

NextPlayback ==
  \/ RenderPrimaryColumn
  \/ \E piece \in PlaybackPieces : Render(piece, "primaryColumn")
  \/ \E last \in BOOLEAN : ToggleReading(last)
  \/ SpeakResolved
  \/ UtteranceStart
  \/ UtteranceEnd

SpecPlayback == InitPlayback /\ [][NextPlayback]_vars

\* initVoice resolves and the speech engine speaks what heads its queue
\* unless it is paused
FairPlayback ==
  /\ SpecPlayback
  /\ WF_vars(SpeakResolved)
  /\ WF_vars(UtteranceStart)
  /\ WF_vars(UtteranceEnd)

(***************************************************************************)
(* The UI filters on candidate texts                                       *)
(***************************************************************************)
OnesBlock == "1111111111111111111111111111111111111111111111111111111111111111"

Ones(n) == SubSeq(OnesBlock, 1, n)

FilterLengths == {19, 20, 44, 45, 49, 50, 51}

FilterCandidates ==
  {"Like", "1.2K", "Follow", "Following", "Promoted", "Ad", "10:30 AM",
   "Jan 5, 2024", "Show more", "12 Likes", "Replying to @alice"}
    \cup {Text("I Like this ", n) : n \in FilterLengths}
    \cup {Text("Like", n) : n \in FilterLengths}
    \cup {Ones(n) : n \in FilterLengths}
    \cup {Ones(n) \o ".5K" : n \in FilterLengths}

\* a candidate element on its own, and one inside a button
FilterDocuments ==
  {[EmptyDocument EXCEPT !.els = LangMarkup(text)] : text \in FilterCandidates}
    \cup {[EmptyDocument EXCEPT
             !.els = Wrapped([Element EXCEPT !.role = "button"], LangMarkup(text))] :
           text \in FilterCandidates}

\* the candidate element: the last element of the document
Candidate == Len(document.els)

\* the read-view strategies ask isButtonText about the trimmed text
CallIsButtonText ==
  /\ ret' = [op |-> "isButtonText",
             text |-> trim(document.els[Candidate].text),
             val |-> isButtonText(trim(document.els[Candidate].text))]
  /\ UNCHANGED <<pathname, document>>
  /\ UNCHANGED <<controller, tts, listener>>

\* the other strategies ask isUIElement about the element and its cleaned text
CallIsUIElement ==
  /\ ret' = [op |-> "isUIElement",
             text |-> cleanText(document.els[Candidate].text),
             val |-> isUIElement(document.els, Candidate,
                                 cleanText(document.els[Candidate].text))]
  /\ UNCHANGED <<pathname, document>>
  /\ UNCHANGED <<controller, tts, listener>>

InitFilter ==
  /\ pathname = "/alice/status/1"
  /\ document \in FilterDocuments
  /\ ret = NoCall
  /\ InitPlayer

NextFilter == CallIsButtonText \/ CallIsUIElement

SpecFilter == InitFilter /\ [][NextFilter]_vars

(***************************************************************************)
(* The read view and its content blocks                                    *)
(***************************************************************************)
GapText == "The first line of the post.\n\nThe second  line."

\* a content block of the read view inside a container, in an element of
\* another kind, or on its own
BlockIn(wrapper, text) == Wrapped(wrapper, LongformMarkup(text))

ImageBlock(tag, text) ==
  << [Element EXCEPT !.tag = tag, !.cls = "longform-unstyled", !.text = text] >>

ListBlock(text) ==
  << [Element EXCEPT !.cls = "public-DraftStyleDefault-ul", !.text = text] >>

\* piece b put after piece a, under the same parent
Beside(a, b) ==
  a \o [k \in 1..Len(b) |-> [b[k] EXCEPT !.parent = IF @ = 0 THEN 0 ELSE @ + Len(a)]]

\* the pieces of a sequence one after the other
RECURSIVE Pieces(_)
Pieces(seq) == IF Len(seq) = 0 THEN <<>> ELSE Beside(Head(seq), Pieces(Tail(seq)))

ReadViewBlocks ==
  Pieces(<<
    LongformMarkup("The opening block of the text"),
    BlockIn([Element EXCEPT !.testid = "card.wrapper"], "A caption in a media card"),
    LongformMarkup("Reply"),
    BlockIn([Element EXCEPT !.testid = "tweetPhoto"], "A caption under a photo"),
    ListBlock(" One item of a list "),
    BlockIn([Element EXCEPT !.tag = "a", !.role = "link", !.href = "/bob/status/7"],
            "The text of an embedded post"),
    ImageBlock("img", "The description of an image"),
    ImageBlock("video", "The description of a video"),
    LongformMarkup("1.2K"),
    LongformMarkup("The closing block of the text") >>)

BlocksPlacements ==
  { At(TweetMarkup("/alice", "Alice", GapText), "primaryColumn"),
    At(ReadViewMarkup(ReadViewBlocks), "primaryColumn"),
    At(ReadViewMarkup(BlockIn([Element EXCEPT !.testid = "card.wrapper"],
                              "A caption in a media card")
                        \o LongformMarkup("Like")), "primaryColumn"),
    At(ReadViewMarkup(LongformMarkup("Share") \o LongformMarkup(GapText)),
       "primaryColumn") }

InitBlocks ==
  /\ pathname \in ExtractPaths
  /\ document = EmptyDocument
  /\ ret = NoCall
  /\ InitPlayer

NextBlocks ==
  \/ RenderPrimaryColumn
  \/ \E p \in BlocksPlacements : Render(p.piece, p.target)
  \/ \E path \in ExtractPaths : Navigate(path)
  \/ CallGetReadableText
  \/ CallGetStructuredContent

SpecBlocks == InitBlocks /\ [][NextBlocks]_vars

(***************************************************************************)
(* The elements with a language attribute                                  *)
(***************************************************************************)
Lang29 == "Twenty-nine chars of body txt"
Lang30 == "Thirty characters of body text"
Lang31 == "Thirty-one characters of a text"

LangPlacements ==
  { At(LangMarkup(Lang29), "main"),
    At(LangMarkup(Lang30), "main"),
    At(LangMarkup("  Thirty  characters of\nbody text "), "primaryColumn"),
    At(LangMarkup(Lang31), "primaryColumn"),
    At(QuotedMarkup(LangMarkup("A quoted block of text with a language")), "main"),
    At(Wrapped([Element EXCEPT !.tag = "button"],
               LangMarkup("The label of a button with a language")), "main"),
    At(TweetMarkup("/alice", "Alice", "Like"), "primaryColumn"),
    At(TweetMarkup("/alice", "Alice", HelloText), "primaryColumn") }

InitLang ==
  /\ pathname \in ExtractPaths
  /\ document = EmptyDocument
  /\ ret = NoCall
  /\ InitPlayer

NextLang ==
  \/ RenderMain
  \/ RenderPrimaryColumn
  \/ \E p \in LangPlacements : Render(p.piece, p.target)
  \/ \E path \in ExtractPaths : Navigate(path)
  \/ CallGetReadableText

SpecLang == InitLang /\ [][NextLang]_vars

(***************************************************************************)
(* What the claims speak of, in the terms of the specification             *)
(***************************************************************************)
Els == document.els

\* the explicit long-form path pattern and the single-item path pattern
LongFormPath == includes(pathname, "/article/") \/ includes(pathname, "/i/articles/")

SingleItemPath ==
  \E i \in 1..Len(pathname) :
     /\ i + 8 <= Len(pathname)
     /\ SubSeq(pathname, i, i + 7) = "/status/"
     /\ Char(pathname, i + 8) \in Digits

PrimaryRegion == querySelector(Els, 0, ById("primaryColumn"))

HasPrimaryRegion == PrimaryRegion # NoElement

\* the structural signals among the elements inside root (0: the document)
ContainerIn(root) ==
  \E i \in 1..Len(Els) : IsInside(Els, i, root) /\ Els[i].testid \in ArticleContainerIds

LabelIn(root) ==
  \E i \in 1..Len(Els) :
     /\ IsInside(Els, i, root)
     /\ Els[i].tag = "span"
     /\ trim(Els[i].text) \in {"Article", "Notes"}

ExpandControlIn(root) ==
  \E i \in 1..Len(Els) :
     IsInside(Els, i, root) /\ Els[i].testid = "tweet-text-show-more-link"

\* no signal that the classifier looks at is present
NoStructuralSignal == ~ContainerIn(0) /\ ~LabelIn(PrimaryRegion) /\ ~ExpandControlIn(0)

MainItem == getMainTweetElement(Els)

MainTextLength == tweetTextLength(Els, MainItem)

\* the first segment of the path in lower case (<<>> if the path has none)
PathAuthor ==
  LET segments == split(pathname, "/")
  IN  IF Len(segments) >= 3 /\ segments[2] # ""
      THEN <<toLowerCase(segments[2])>>
      ELSE <<>>

\* the content items of the primary region outside quoted items
TopLevelItems ==
  {t \in 1..Len(Els) :
     /\ Els[t].tag = "article" /\ Els[t].testid = "tweet"
     /\ IsInside(Els, t, PrimaryRegion)
     /\ ~closest(Els, t, ById("quoteTweet"))}

SameAuthorItems ==
  {t \in TopLevelItems :
     PathAuthor # <<>> /\ extractAuthorFromElement(Els, t) = PathAuthor}

SameAuthorLength == SumTweetText(Els, SameAuthorItems)

ThreadRuleApplies == Cardinality(SameAuthorItems) >= 2 /\ SameAuthorLength >= 400

Classified == ret.op = "isArticlePage"

\* a single-item page on which the classifier reaches the main item
ReachesMainItem ==
  /\ Classified
  /\ SingleItemPath /\ ~LongFormPath
  /\ HasPrimaryRegion
  /\ NoStructuralSignal
  /\ MainItem # NoElement

\* the text of a content item
ItemText(t) == innerText(Els, querySelector(Els, t, ById("tweetText")))

\* strings of the interface chrome
ChromeSamples == {"Like", "Follow", "Promoted", "Ad", "1.2K", "10:30 AM", "Jan 5, 2024"}

IsChrome(text) ==
  \/ text \in ChromeSamples
  \/ isButtonText(text)
  \/ \E k \in 1..Len(uiPatterns) : TestWhole(uiPatterns[k], trim(text))

\* p is one of the blank-line separated paragraphs of text
ParagraphOf(text, p) ==
  \/ text = p
  \/ startsWith(text, p \o "\n\n")
  \/ includes(text, "\n\n" \o p \o "\n\n")
  \/ /\ Len(text) >= Len(p) + 2
     /\ SubSeq(text, Len(text) - Len(p) - 1, Len(text)) = "\n\n" \o p

Read == ret.op = "getReadableText"

Extracted == ret.op = "getStructuredContent"

PrimaryParagraphs == extractContent(pathname, document).paragraphs

FallbackParagraphs == extractFallbackContent(document).paragraphs

\* the paragraphs that getReadableText reads out
ReturnedParagraphs ==
  IF Len(PrimaryParagraphs) > 0 THEN PrimaryParagraphs ELSE FallbackParagraphs

DerivedAuthor == extractAuthor(document)

\* the first k strings of seq, each followed by a blank line but the last
RECURSIVE BlankLineJoined(_, _)
BlankLineJoined(seq, k) ==
  IF k = 0 THEN ""
  ELSE IF k = 1 THEN seq[1]
  ELSE BlankLineJoined(seq, k - 1) \o "\n\n" \o seq[k]

\* the structured read-view container and the paragraphs its marked blocks give
ReadView == querySelector(Els, 0, ById("twitterArticleReadView"))

StructuredParagraphs ==
  IF ReadView = NoElement THEN <<>>
  ELSE longformParagraphs(Els,
         InOrder(querySelectorAll(Els, ReadView,
           Css("[class*=longform-], .public-DraftStyleDefault-ul, .public-DraftStyleDefault-ol"))),
         <<>>)

AuthorLine == IF DerivedAuthor # "" THEN "Article by " \o DerivedAuthor \o "\n\n" ELSE ""

\* the author-name element: the first span in a span of the first User-Name
NameElement ==
  LET userName == querySelector(Els, 0, ById("User-Name"))
  IN  IF userName = NoElement THEN NoElement
      ELSE querySelector(Els, userName, Css("span > span"))

NameElementText == trim(innerText(Els, NameElement))

HasAuthorName == NameElementText # "" /\ ~startsWith(NameElementText, "@")

\* the name a title of the form '<name> <word> X:' gives, for the words given:
\* <<name>>, or <<>> if the title has not this form
TitleName(words) ==
  LET title == document.title
      tail == <<Plus("s"), Alt(words), Plus("s"), Alt({"X"}), Alt({":"})>>
      ends == {q \in 2..(Len(title) + 1) : MatchEnds(tail, title, {q}) # {}}
  IN  IF ends = {} THEN <<>> ELSE <<trim(SubSeq(title, 1, First(ends) - 1))>>

\* the first available of the name element, the title and the meta tag
FirstAvailableAuthor(words) ==
  IF HasAuthorName THEN NameElementText
  ELSE IF TitleName(words) # <<>> THEN TitleName(words)[1]
  ELSE IF document.metaAuthor # "" THEN document.metaAuthor
  ELSE ""

\* the document gives no author: no usable name element, no title of the
\* form read, no meta tag
NoAuthorSignal ==
  /\ ~HasAuthorName
  /\ TitleName({"on", "/"}) = <<>>
  /\ document.metaAuthor = ""

\* the document without its title and its author meta tag
WithoutTitleAndMeta == [document EXCEPT !.title = "", !.metaAuthor = ""]

Filtered == ret.op \in {"isButtonText", "isUIElement"}

\* element e stands inside interface chrome (navigation, footer, button)
InsideChrome(e) ==
  \E i \in 1..Len(Els) :
     /\ i = e \/ IsInside(Els, e, i)
     /\ \/ Els[i].tag \in {"nav", "footer", "button"}
        \/ Els[i].role \in {"button", "navigation"}

InChrome == InsideChrome(Candidate)

\* element e stands inside a quoted item
InsideQuoted(e) ==
  \E i \in 1..Len(Els) :
     /\ i = e \/ IsInside(Els, e, i)
     /\ Els[i].testid = "quoteTweet"

\* the item texts of the primary region that read as paragraph p
SourcesOf(p) ==
  {e \in 1..Len(Els) :
     /\ Els[e].testid = "tweetText"
     /\ IsInside(Els, e, PrimaryRegion)
     /\ trim(Els[e].text) = p}

\* the page is one that isArticlePage() classifies as an article
ArticleNow == isArticlePage(pathname, document)

PlayerVisible == controller.player = "visible"

\* the chunks of the text of the transcript page, by index
TranscriptChunks == splitIntoChunks(getReadableText(TranscriptPath, TranscriptDocument)[1])

TranscriptIndexes == 0..(Len(TranscriptChunks) - 1)

(***************************************************************************)
(* Claims                                                                  *)
(***************************************************************************)
\* C1: for every document state, isArticlePage() is true whenever the path
\* contains '/article/' or '/i/articles/'.
C1_PathOverride == (Classified /\ LongFormPath) => ret.val = TRUE

C1_Witness ==
  /\ Classified /\ LongFormPath
  /\ ~HasPrimaryRegion
  /\ ret.val = TRUE

\* C2: for every path that matches neither the long-form pattern nor the
\* single-item pattern, isArticlePage() is false whatever the document holds.
C2_OtherPathsRejected ==
  (Classified /\ ~LongFormPath /\ ~SingleItemPath) => ret.val = FALSE

C2_Witness ==
  /\ Classified /\ ~LongFormPath /\ ~SingleItemPath
  /\ includes(pathname, "/status/")
  /\ HasPrimaryRegion
  /\ ContainerIn(PrimaryRegion) /\ LabelIn(PrimaryRegion)
  /\ ret.val = FALSE

\* C3 as stated: on a single-item path with the primary region present and no
\* structural signal, isArticlePage() is false when the main item's text has
\* exactly 280 characters and true when it has 281.
C3_Original ==
  ReachesMainItem =>
    /\ MainTextLength = 280 => ret.val = FALSE
    /\ MainTextLength = 281 => ret.val = TRUE

\* C3 amended: with 281 characters the result is true; with exactly 280 it is
\* false unless the thread rule applies (at least 2 items of the path's author
\* whose lengths sum to at least 400).
C3_LengthBoundary ==
  ReachesMainItem =>
    /\ (MainTextLength = 280 /\ ~ThreadRuleApplies) => ret.val = FALSE
    /\ MainTextLength = 281 => ret.val = TRUE

C3_Witness ==
  /\ ReachesMainItem
  /\ MainTextLength = 280
  /\ Cardinality(TopLevelItems) = 1
  /\ ret.val = FALSE

\* C4: on a single-item path where no earlier rule fired, isArticlePage() is
\* true if and only if at least 2 items share the path's author and their text
\* lengths sum to at least 400.
C4_ThreadRule ==
  (ReachesMainItem /\ MainTextLength <= 280) => (ret.val <=> ThreadRuleApplies)

C4_Witness ==
  /\ ReachesMainItem /\ MainTextLength <= 280
  /\ Cardinality(SameAuthorItems) = 2
  /\ SameAuthorLength = 400
  /\ ret.val = TRUE

\* C5: on a single-item path with the primary region present, isArticlePage()
\* is true whenever the primary region holds a long-form container, a label
\* whose trimmed text is 'Article' or 'Notes', or a show-more control,
\* whatever the texts and authors of the items.
C5_StructuralSignals ==
  (/\ Classified /\ SingleItemPath /\ HasPrimaryRegion
   /\ \/ ContainerIn(PrimaryRegion)
      \/ LabelIn(PrimaryRegion)
      \/ ExpandControlIn(PrimaryRegion))
    => ret.val = TRUE

C5_Witness ==
  /\ Classified /\ SingleItemPath /\ HasPrimaryRegion
  /\ \E i \in 1..Len(Els) : Els[i].tag = "span" /\ Els[i].text = " Notes "
  /\ ~ContainerIn(0) /\ ~ExpandControlIn(0)
  /\ MainItem # NoElement /\ MainTextLength <= 280
  /\ ret.val = TRUE

\* C6: on a single-item path, isArticlePage() is false when the document has
\* no primary region, whatever else the document holds.
C6_NoPrimaryRegion ==
  (Classified /\ SingleItemPath /\ ~LongFormPath /\ ~HasPrimaryRegion)
    => ret.val = FALSE

C6_Witness ==
  /\ Classified /\ SingleItemPath /\ ~LongFormPath /\ ~HasPrimaryRegion
  /\ ContainerIn(0) /\ ExpandControlIn(0)
  /\ MainItem # NoElement /\ MainTextLength > 280
  /\ ret.val = FALSE

\* C7: getReadableText() returns null exactly when the primary extraction
\* and the fallback extraction both yield no paragraph, and a non-empty
\* string in every other case.
C7_NullExactly ==
  Read =>
    /\ ret.val = <<>> <=> (Len(PrimaryParagraphs) = 0 /\ Len(FallbackParagraphs) = 0)
    /\ ret.val # <<>> => Len(ret.val[1]) > 0

C7_Witness ==
  /\ Read
  /\ Len(PrimaryParagraphs) = 0 /\ Len(FallbackParagraphs) > 0
  /\ ret.val # <<>>

\* C8: on a single-item path of author A whose primary region holds items of
\* A and of another author, the text getReadableText() returns contains no
\* text of an item of the other author.
C8_OnlyPathAuthor ==
  (Read /\ SingleItemPath /\ ~LongFormPath /\ HasPrimaryRegion /\ ret.val # <<>>)
    => \A t \in TopLevelItems \ SameAuthorItems :
          trim(ItemText(t)) # "" => ~includes(ret.val[1], trim(ItemText(t)))

\* C9: the paragraphs of an extracted content hold no two equal strings,
\* whichever strategy produced them.
C9_NoDuplicates ==
  Extracted =>
    \A j, k \in 1..Len(ret.val.paragraphs) :
       j # k => ret.val.paragraphs[j] # ret.val.paragraphs[k]

\* C10: no paragraph of an extracted content, and no paragraph of the text
\* getReadableText() returns, is a string of the interface chrome.
C10_NoChrome ==
  /\ Extracted =>
       \A k \in 1..Len(ret.val.paragraphs) : ~IsChrome(ret.val.paragraphs[k])
  /\ (Read /\ ret.val # <<>>) =>
       \A p \in ChromeSamples : ~ParagraphOf(ret.val[1], p)

C12_TextAssembly ==
  (Read /\ ret.val # <<>>) =>
    ret.val[1] =
      (IF DerivedAuthor # "" THEN "Article by " \o DerivedAuthor \o "\n\n" ELSE "")
        \o BlankLineJoined(ReturnedParagraphs, Len(ReturnedParagraphs))

C12_Witness ==
  /\ Read /\ ret.val # <<>>
  /\ DerivedAuthor = ""
  /\ Len(ReturnedParagraphs) >= 2
  /\ ~startsWith(ret.val[1], "Article by")

\* C13: when the structured-container strategy yields at least one paragraph,
\* the extracted paragraphs are its paragraphs and the text getReadableText()
\* returns holds them only; no later layer contributes.
C13_StructuredOnly ==
  Len(StructuredParagraphs) > 0 =>
    /\ Extracted => ret.val.paragraphs = StructuredParagraphs
    /\ Read =>
         /\ ret.val # <<>>
         /\ ret.val[1] = AuthorLine
                \o BlankLineJoined(StructuredParagraphs, Len(StructuredParagraphs))

\* C19 as stated: the derived author is the first available of the name
\* element's text (not empty, not beginning with '@'), the name of a title
\* of the form '<name> on X:', the author meta tag's content, and "".
C19_Original == Extracted => ret.val.author = FirstAvailableAuthor({"on"})

\* C19 amended: the same order, the title being of the form '<name> on X:'
\* or '<name> / X:'.
C19_AuthorOrder == Extracted => ret.val.author = FirstAvailableAuthor({"on", "/"})

C19_Witness ==
  /\ Extracted
  /\ NameElement # NoElement /\ startsWith(NameElementText, "@")
  /\ document.title = "Bob on X: hello"
  /\ document.metaAuthor = "Dave"
  /\ ret.val.author = "Bob"

\* C15: whatever is missing from the document, isArticlePage() returns a
\* boolean, getReadableText() null or a non-empty text and
\* getStructuredContent() a content with its four fields; without an author
\* signal the author is empty, without paragraphs the title is empty, and
\* the paragraphs are those of the document without title and meta tag.
C15_MissingInputs ==
  /\ Classified => ret.val \in BOOLEAN
  /\ Read => (ret.val = <<>> \/ (Len(ret.val) = 1 /\ Len(ret.val[1]) > 0))
  /\ Extracted =>
       /\ DOMAIN ret.val = {"title", "author", "body", "paragraphs"}
       /\ NoAuthorSignal => ret.val.author = ""
       /\ Len(ret.val.paragraphs) = 0 => ret.val.title = ""
       /\ ret.val.paragraphs = extractContent(pathname, WithoutTitleAndMeta).paragraphs

C15_Witness ==
  /\ Extracted
  /\ NoAuthorSignal
  /\ NameElement # NoElement /\ startsWith(NameElementText, "@")
  /\ document.title = "Home / X"
  /\ Len(ret.val.paragraphs) >= 1
  /\ ret.val.author = ""

\* C17: the UI filters reject a candidate equal to 'Like', '1.2K' or
\* 'Follow', retain a candidate of 45 characters that contains 'Like', and
\* reject no candidate of 50 or more characters for its content.
C17_NoiseFilter ==
  Filtered =>
    /\ ret.text \in {"Like", "1.2K", "Follow"} => ret.val = TRUE
    /\ (Len(ret.text) = 45 /\ includes(ret.text, "Like") /\ ~InChrome)
         => ret.val = FALSE
    /\ (Len(ret.text) >= 50 /\ ~InChrome) => ret.val = FALSE

\* C18: in every content returned by getStructuredContent() the title is the
\* first paragraph when that paragraph is shorter than 150 characters, and
\* is empty otherwise.
C18_TitleIsFirstParagraph ==
  Extracted =>
    ret.val.title =
      IF Len(ret.val.paragraphs) > 0 /\ Len(ret.val.paragraphs[1]) < TITLE_MAX_LENGTH
      THEN ret.val.paragraphs[1]
      ELSE ""

\* C20: when the document has no read-view container, every paragraph that
\* the thread strategy returns on a status path has 20 characters or more,
\* is no string of the interface chrome, and is the text of an item that
\* stands neither inside navigation, footer or button nor inside a quoted
\* item.
C20_ThreadParagraphsFiltered ==
  (Extracted /\ SingleItemPath /\ ~LongFormPath /\ ReadView = NoElement) =>
    \A k \in 1..Len(ret.val.paragraphs) :
       LET p == ret.val.paragraphs[k]
       IN  /\ Len(p) >= UI_MIN_TEXT_LENGTH
           /\ ~IsChrome(p)
           /\ \E e \in SourcesOf(p) : ~InsideChrome(e) /\ ~InsideQuoted(e)

\* C14: if from some point on the path stays the same, isArticlePage() is
\* true of the page and the player is not closed by hand, then the player
\* becomes visible after that point.
C14_EventuallyVisible ==
  \A p \in ControllerPaths :
     <>[](pathname = p /\ ArticleNow /\ ~controller.manuallyClosed)
       => []<>PlayerVisible

\* C16: after a click on paragraph i of the transcript that finds the speech
\* stopped, playing or ended, with nothing done by the user and nothing
\* changed in the document afterwards, chunk i is spoken.
C16_ClickedIsSpoken ==
  \A i \in TranscriptIndexes : (listener.clicked = <<i>>) ~> (i \in listener.heard)

\* a text in cleaned form: no white space at either end, no white space but
\* single spaces inside
IsCleaned(p) ==
  /\ trim(p) = p
  /\ \A i \in 1..Len(p) :
        IsSpace(Char(p, i)) =>
          Char(p, i) = " " /\ (i = 1 \/ ~IsSpace(Char(p, i - 1)))

\* C21: every paragraph that an extraction returns, and every paragraph that
\* getReadableText() reads out, is in cleaned form (no white space at the
\* ends, no run of white space, no line break), and cleaning it again
\* leaves it as it is.
C21_CleanedParagraphs ==
  /\ Extracted =>
       \A k \in 1..Len(ret.val.paragraphs) :
          IsCleaned(ret.val.paragraphs[k])
            /\ cleanText(ret.val.paragraphs[k]) = ret.val.paragraphs[k]
  /\ Read =>
       \A k \in 1..Len(ReturnedParagraphs) :
          IsCleaned(ReturnedParagraphs[k])
            /\ cleanText(ReturnedParagraphs[k]) = ReturnedParagraphs[k]

\* the strategies that clean their candidates (the article container on a
\* long-form path) return cleaned paragraphs
C21_ArticleContainerCleans ==
  (Extracted /\ includes(pathname, "/article/")
     /\ querySelector(Els, 0, Css("article")) # NoElement) =>
    \A k \in 1..Len(ret.val.paragraphs) :
       IsCleaned(ret.val.paragraphs[k])
         /\ cleanText(ret.val.paragraphs[k]) = ret.val.paragraphs[k]

\* no rule of the classifier but the structural signals gives true
NoOtherRuleFires ==
  MainItem = NoElement \/ (MainTextLength <= MIN_SINGLE_TWEET_LENGTH /\ ~ThreadRuleApplies)

\* C22: on a single-item path with the primary region present, when the
\* primary region holds no long-form container, no label and no expand
\* control and no other rule fires, isArticlePage() is false, whatever
\* container or expand control the document holds outside the primary region.
C22_SignalsInsidePrimaryRegion ==
  (/\ Classified /\ SingleItemPath /\ ~LongFormPath /\ HasPrimaryRegion
   /\ ~ContainerIn(PrimaryRegion)
   /\ ~LabelIn(PrimaryRegion)
   /\ ~ExpandControlIn(PrimaryRegion)
   /\ NoOtherRuleFires)
    => ret.val = FALSE

\* the same with no container and no expand control anywhere in the document
C22_NoSignalAnywhere ==
  (/\ Classified /\ SingleItemPath /\ ~LongFormPath /\ HasPrimaryRegion
   /\ NoStructuralSignal
   /\ NoOtherRuleFires)
    => ret.val = FALSE

\* the content items of the primary region that stand outside every quoted
\* item and whose author is the first segment of the path, letter case aside
CountedItems ==
  {t \in 1..Len(Els) :
     /\ Els[t].tag = "article" /\ Els[t].testid = "tweet"
     /\ IsInside(Els, t, PrimaryRegion)
     /\ ~InsideQuoted(t)
     /\ PathAuthor # <<>>
     /\ extractAuthorFromElement(Els, t) = PathAuthor}

\* C23: when the classifier reaches thread detection, the items it counts
\* are exactly the items of the primary region outside quoted items whose
\* author is the path's first segment (letter case aside), and the result is
\* true exactly when these are at least 2 and their texts sum to at least
\* 400: quoted items and items of other authors add nothing.
C23_ThreadCount ==
  (ReachesMainItem /\ MainTextLength <= MIN_SINGLE_TWEET_LENGTH /\ PathAuthor # <<>>) =>
    /\ authorTweets(Els, PrimaryRegion, PathAuthor[1]) = CountedItems
    /\ ret.val = (/\ Cardinality(CountedItems) >= MIN_THREAD_TWEETS
                  /\ SumTweetText(Els, CountedItems) >= MIN_THREAD_CONTENT_LENGTH)

\* two items of the path's author, one with the handle in another letter
\* case, 399 characters together, beside a quoted item of the same author
\* with 400 characters: not a thread
C23_Witness ==
  /\ ReachesMainItem /\ MainTextLength <= MIN_SINGLE_TWEET_LENGTH
  /\ Cardinality(CountedItems) = 2
  /\ SumTweetText(Els, CountedItems) = 399
  /\ \E t \in CountedItems :
        Els[querySelector(Els, t, Css("a[href^=/]"))].href = "/Alice/status/5"
  /\ \E t \in 1..Len(Els) :
        /\ Els[t].testid = "tweet" /\ InsideQuoted(t)
        /\ extractAuthorFromElement(Els, t) = PathAuthor
        /\ tweetTextLength(Els, t) = 400
  /\ ret.val = FALSE

\* the region the fallback searches: the primary region, or the main element
FallbackRegion == IF HasPrimaryRegion THEN PrimaryRegion ELSE mainIndex(Els)

\* what the fallback takes from the item texts, the stage before the
\* language-attributed elements
FallbackTweetParagraphs ==
  IF FallbackRegion = NoElement THEN <<>>
  ELSE fallbackParagraphs(Els,
         InOrder(querySelectorAll(Els, FallbackRegion, ById("tweetText"))),
         FALLBACK_MIN_TWEET_LENGTH, <<>>)

\* the language-attributed elements of the region, outside quoted items, that
\* pass the UI filter and whose cleaned text has min characters or more
LangCandidates(min) ==
  {e \in 1..Len(Els) :
     /\ FallbackRegion # NoElement
     /\ IsInside(Els, e, FallbackRegion)
     /\ Els[e].tag = "div" /\ Els[e].lang
     /\ ~InsideQuoted(e)
     /\ Len(cleanText(Els[e].text)) >= min
     /\ ~isUIElement(Els, e, cleanText(Els[e].text))}

\* the cleaned texts of the elements, in order, each text once
RECURSIVE DistinctTexts(_, _)
DistinctTexts(elements, seen) ==
  IF Len(elements) = 0 THEN seen
  ELSE LET text == cleanText(Els[Head(elements)].text)
       IN  DistinctTexts(Tail(elements),
                         IF text \in Range(seen) THEN seen ELSE Append(seen, text))

LangKept(min) == DistinctTexts(InOrder(LangCandidates(min)), <<>>)

\* the text read out for the paragraphs given: null if there is none
ReadOut(paragraphs) ==
  IF Len(paragraphs) = 0 THEN <<>>
  ELSE <<AuthorLine \o BlankLineJoined(paragraphs, Len(paragraphs))>>

\* getReadableText() reads the earlier strategies' paragraphs alone when there
\* are any, else the fallback's item texts alone when there are any, else the
\* language-attributed candidates of min characters or more
FallbackReads(min) ==
  Read =>
    ret.val = IF Len(PrimaryParagraphs) > 0 THEN ReadOut(PrimaryParagraphs)
              ELSE IF Len(FallbackTweetParagraphs) > 0
                   THEN ReadOut(FallbackTweetParagraphs)
                   ELSE ReadOut(LangKept(min))

\* C24: the aggressive fallback contributes only when the earlier strategies
\* yield no paragraph, and from the language-attributed elements it keeps
\* exactly the candidates that pass the duplicate and UI filters and whose
\* cleaned text has at least 30 characters: one of 30 characters is kept,
\* one of 29 is dropped.
C24_FallbackMinimum == FallbackReads(FALLBACK_MIN_LANG_LENGTH)

\* the same with candidates of more than 30 characters
C24_MoreThanMinimum == FallbackReads(FALLBACK_MIN_LANG_LENGTH + 1)

\* the read view is consulted: it exists, and on a long-form path the
\* document has no article container that is taken instead
ReadViewReached ==
  /\ ReadView # NoElement
  /\ includes(pathname, "/article/") =>
       /\ querySelector(Els, 0, ById("article")) = NoElement
       /\ querySelector(Els, 0, ById("articleViewer")) = NoElement
       /\ querySelector(Els, 0, Css("article")) = NoElement

\* element e is, or stands inside, an element that has property Is
InsideSome(e, Is(_)) == \E i \in 1..Len(Els) : (i = e \/ IsInside(Els, e, i)) /\ Is(Els[i])

IsMediaCard(el) == el.testid = "card.wrapper"
IsPhoto(el) == el.testid = "tweetPhoto"
IsEmbeddedItemLink(el) == el.role = "link" /\ includes(el.href, "/status/")

\* labels of the actions of an item, and a counter
ActionSamples ==
  {"Like", "Repost", "Reply", "Share", "Bookmark", "Copy link", "More",
   "Follow", "Following", "1.2K"}

IsActionText(text) == text \in ActionSamples \/ isButtonText(text)

\* the content blocks of the read view that stand in no media card, photo or
\* embedded link to an item, are no image or video, and have a text that is
\* no action text
ContentBlocks ==
  {e \in 1..Len(Els) :
     /\ ReadView # NoElement
     /\ IsInside(Els, e, ReadView)
     /\ \/ includes(Els[e].cls, "longform-")
        \/ Els[e].cls \in {"public-DraftStyleDefault-ul", "public-DraftStyleDefault-ol"}
     /\ ~InsideSome(e, IsMediaCard)
     /\ ~InsideSome(e, IsPhoto)
     /\ ~InsideSome(e, IsEmbeddedItemLink)
     /\ Els[e].tag \notin {"img", "video"}
     /\ trim(Els[e].text) # ""
     /\ ~IsActionText(trim(Els[e].text))}

ContentBlockTexts ==
  LET blocks == InOrder(ContentBlocks)
  IN  [k \in 1..Len(blocks) |-> trim(Els[blocks[k]].text)]

ClosedHere == listener.closedAt = <<pathname>>

\* C26: after the user has closed the player with the Close button, no check
\* shows it again while the address is unchanged; and the manual-close flag
\* is cleared only by a check that finds the address changed, by an icon
\* click on an article page with the player not visible, or by a
\* toggle-reading message on an article page.
C26_ManualClosePersists ==
  /\ [](ClosedHere => ~PlayerVisible)
  /\ [][(controller.manuallyClosed /\ ~controller'.manuallyClosed) =>
          \/ pathname # controller.lastUrl
          \/ ArticleNow /\ ~PlayerVisible /\ ret'.op = "icon-clicked"
          \/ ArticleNow /\ ret'.op = "toggle-reading"]_vars

\* a step in which the timer of a check fires: the check classifies the page
CheckFires ==
  \/ controller.poll /\ ~controller'.poll
  \/ controller.popstate /\ ~controller'.popstate

\* C27: a check that finds the page to be no article leaves the player not
\* visible, the speech stopped (not playing, not paused, nothing queued) and
\* the Play button in its stopped state; a check that finds an article page
\* whose player was not closed by hand leaves the player visible.
C27_ScheduledCheck ==
  [][CheckFires =>
       /\ ~ArticleNow =>
            /\ controller'.player # "visible"
            /\ ~tts'.isPlaying /\ ~tts'.isPaused /\ tts'.queue = <<>>
            /\ controller'.ui = "stopped"
       /\ (ArticleNow /\ ~controller.manuallyClosed) =>
            controller'.player = "visible"]_vars

\* the page has gone while the speech was on: the check has hidden the
\* player and stopped the speech that had begun
C27_Witness ==
  /\ ~ArticleNow
  /\ controller.lastUrl = pathname /\ ~controller.poll /\ ~controller.popstate
  /\ controller.player = "hidden" /\ ~controller.manuallyClosed
  /\ controller.currentChunks # <<>> /\ Len(tts.textChunks) > 0
  /\ ~tts.isPlaying /\ ~tts.isPaused /\ tts.queue = <<>> /\ tts.currentChunkIndex = 0
  /\ controller.ui = "stopped"
  /\ listener.closedAt = <<>>

\* the text of the page as the speech module would split it
PageChunks ==
  With(getReadableText(pathname, document), LAMBDA text :
    IF text = <<>> THEN <<>> ELSE splitIntoChunks(text[1]))

\* C29: a toggle-reading message on an article page leaves the player
\* visible and the manual-close flag cleared and toggles the playback: when
\* stopped, speak is called with the text of the page, when playing the
\* speech is paused, when paused it is resumed; on a page that is no article
\* player and speech stay as they are; the answer is success in both cases.
C29_ToggleReading ==
  [][(ret'.op = "toggle-reading" /\ ToggleReading(FALSE)) =>
       /\ ret'.val.success
       /\ ~ArticleNow => UNCHANGED <<controller, tts>>
       /\ ArticleNow =>
            /\ controller'.player = "visible"
            /\ ~controller'.manuallyClosed
            /\ (tts.isPlaying /\ ~tts.isPaused) =>
                 /\ tts'.isPlaying /\ tts'.isPaused /\ tts'.paused
                 /\ controller'.ui = "paused"
            /\ (tts.isPlaying /\ tts.isPaused) =>
                 /\ tts'.isPlaying /\ ~tts'.isPaused /\ ~tts'.paused
                 /\ controller'.ui = "playing"
            /\ (~tts.isPlaying /\ PageChunks # <<>>) =>
                 /\ Len(tts'.speaks) = Len(tts.speaks) + 1
                 /\ tts'.speaks[Len(tts'.speaks)].chunks = PageChunks]_vars

\* the message has paused a speech on a page whose player had been closed
C29_Witness ==
  /\ ret.op = "toggle-reading" /\ ret.val.success
  /\ ArticleNow
  /\ PlayerVisible /\ ~controller.manuallyClosed
  /\ tts.isPlaying /\ tts.isPaused /\ tts.paused
  /\ controller.ui = "paused"
  /\ Len(tts.queue) > 0

\* C30: an icon-clicked message has one of three outcomes: on a page that is
\* no article, success false and player, flag and speech unchanged; on an
\* article page with the player visible, success true, 'already open' and
\* nothing changed; on an article page with the player hidden or absent, the
\* flag cleared, the player visible and success true.
C30_IconClicked ==
  [][(ret'.op = "icon-clicked" /\ IconClicked) =>
       /\ tts' = tts
       /\ ~ArticleNow =>
            /\ ret'.val = Response(FALSE, "Open an X Article for the Read Aloud player to appear.")
            /\ controller' = controller
       /\ (ArticleNow /\ PlayerVisible) =>
            /\ ret'.val = Response(TRUE, "Player is already open.")
            /\ controller' = controller
       /\ (ArticleNow /\ ~PlayerVisible) =>
            /\ ret'.val = Response(TRUE, "Player opened!")
            /\ controller' = [controller EXCEPT !.manuallyClosed = FALSE,
                                                !.player = "visible"]]_vars

\* the icon has opened again a player that was closed by hand
C30_Witness ==
  /\ ret.op = "icon-clicked" /\ ret.val = Response(TRUE, "Player opened!")
  /\ ArticleNow /\ PlayerVisible /\ ~controller.manuallyClosed
  /\ controller.lastUrl = pathname
  /\ controller.currentChunks # <<>>

\* the chunks of the reading that is observed: those of the call of speak
\* that awaits initVoice, or those the speech module holds
ObservedChunks ==
  IF tts.speaks # <<>> THEN Head(tts.speaks).chunks ELSE tts.textChunks

\* the callbacks of a reading of n chunks from its start to its end
ExpectedCallbacks(n) ==
  <<[callback |-> "onStart", chunk |-> 0]>>
    \o [k \in 1..n |-> [callback |-> "onChunkChange", chunk |-> k - 1]]
    \o <<[callback |-> "onEnd", chunk |-> n]>>

\* the reading has started and the user does nothing more
Reading == ~Acting

ReadToTheEnd ==
  /\ listener.log = ExpectedCallbacks(Len(ObservedChunks))
  /\ ~tts.isPlaying /\ ~tts.isPaused

\* C28: once speak has been called with a text of n >= 1 chunks and the user
\* does nothing more, the callbacks delivered are at every moment a prefix of
\* onStart, chunk 0, ..., chunk n - 1, onEnd (each chunk once, in order,
\* onStart once before chunk 0, onEnd once after chunk n - 1), and in the
\* end all of them are delivered with isPlaying and isPaused false.
C28_PlaysThrough ==
  /\ [](Reading =>
          /\ Len(ObservedChunks) >= 1
          /\ Len(listener.log) <= Len(ObservedChunks) + 2
          /\ listener.log =
               SubSeq(ExpectedCallbacks(Len(ObservedChunks)), 1, Len(listener.log)))
  /\ Reading ~> ReadToTheEnd

\* a reading of four chunks has come to its end
C28_Witness ==
  /\ Reading
  /\ Len(tts.textChunks) = 4
  /\ ReadToTheEnd
  /\ listener.heard = 0..3
  /\ controller.ui = "stopped"


(***************************************************************************)
(* The speech module under every interleaving of its calls and of the      *)
(* events of the synthesizer                                               *)
(***************************************************************************)
\* at most this many calls of speak await initVoice, and at most this many
\* end events of cancelled utterances are still to come
MaxPending == 2

SpeechTexts == {"One.", "One.\n\nTwo.\n\nThree."}

SpeechRates == {85, 250}

\* the events of cancelled utterances that are still to come leave room
Room == tts.late < MaxPending

InitSpeech ==
  /\ pathname = "/"
  /\ document = EmptyDocument
  /\ ret = NoCall
  /\ controller = InitController
  /\ tts \in {[InitTTS EXCEPT !.endOnCancel = b] : b \in BOOLEAN}
  /\ listener = InitListener

\* TTS.speak(text), up to its await
CallSpeak(text) ==
  /\ Room
  /\ Len(tts.speaks) < MaxPending
  /\ tts' = speak(tts, text, <<>>)
  /\ listener' = [listener EXCEPT !.stopped = FALSE]
  /\ UNCHANGED <<pathname, document, ret, controller>>

\* TTS.stop()
CallStop ==
  /\ Room
  /\ tts' = stop(tts)
  /\ listener' = [listener EXCEPT !.stopped = TRUE]
  /\ UNCHANGED <<pathname, document, ret, controller>>

\* TTS.pause(), with onPause
CallPause ==
  /\ tts' = pause(tts)
  /\ controller' = IF tts' # tts THEN updateUI(controller, "paused") ELSE controller
  /\ UNCHANGED <<pathname, document, ret, listener>>

\* TTS.resume(), with onResume
CallResume ==
  /\ tts' = resume(tts)
  /\ controller' = IF tts' # tts THEN updateUI(controller, "playing") ELSE controller
  /\ UNCHANGED <<pathname, document, ret, listener>>

\* TTS.togglePause()
CallTogglePause ==
  /\ tts' = togglePause(tts)
  /\ controller' = togglePlayUI(controller, tts)
  /\ UNCHANGED <<pathname, document, ret, listener>>

\* speakChunk called by a handler delivers onEnd when the index is past the
\* last chunk
endsReading(before, after) == before.isPlaying /\ ~after.isPlaying

\* TTS.skipNext(), TTS.skipPrevious(), TTS.skipToChunk(index), TTS.setRate(rate)
CallSkipNext ==
  /\ Room
  /\ tts' = skipNext(tts)
  /\ controller' = IF endsReading(tts, tts') THEN updateUI(controller, "stopped")
                   ELSE controller
  /\ ret' = [op |-> "skipNext", val |-> tts.isPlaying /\ tts.currentChunkIndex < Len(tts.textChunks) - 1]
  /\ UNCHANGED <<pathname, document, listener>>

CallSkipPrevious ==
  /\ Room
  /\ tts' = skipPrevious(tts)
  /\ controller' = IF endsReading(tts, tts') THEN updateUI(controller, "stopped")
                   ELSE controller
  /\ ret' = [op |-> "skipPrevious", val |-> tts.isPlaying /\ tts.currentChunkIndex > 0]
  /\ UNCHANGED <<pathname, document, listener>>

CallSkipToChunk(index) ==
  /\ Room
  /\ tts' = skipToChunk(tts, index)
  /\ controller' = IF endsReading(tts, tts') THEN updateUI(controller, "stopped")
                   ELSE controller
  /\ ret' = [op |-> "skipToChunk", val |-> index >= 0 /\ index < Len(tts.textChunks)]
  /\ UNCHANGED <<pathname, document, listener>>

CallSetRate(rate) ==
  /\ Room
  /\ tts' = setRate(tts, rate)
  /\ controller' = IF endsReading(tts, tts') THEN updateUI(controller, "stopped")
                   ELSE controller
  /\ ret' = [op |-> "setRate", val |-> clampRate(rate)]
  /\ UNCHANGED <<pathname, document, listener>>

\* the error event of the utterance that heads the queue, with an error other
\* than 'interrupted' and 'canceled'
UtteranceError ==
  /\ Len(tts.queue) > 0
  /\ ~tts.paused
  /\ tts' = onerror([tts EXCEPT !.queue = Tail(@)])
  /\ UNCHANGED <<pathname, document, ret, controller, listener>>

\* the end event of the spoken utterance that was already on its way when
\* pause() ran: onend finds isPaused true
UtteranceEndPaused ==
  /\ Len(tts.queue) > 0
  /\ tts.paused
  /\ tts.isPaused
  /\ Head(tts.queue).started
  /\ tts' = onend([tts EXCEPT !.queue = Tail(@)])
  /\ UNCHANGED <<pathname, document, ret, controller, listener>>

\* the end event of a cancelled utterance
CancelledEnd ==
  /\ tts.late > 0
  /\ tts' = onend([tts EXCEPT !.late = @ - 1])
  /\ controller' = IF endsReading(tts, tts') THEN updateUI(controller, "stopped")
                   ELSE controller
  /\ UNCHANGED <<pathname, document, ret, listener>>

NextSpeech ==
  \/ \E text \in SpeechTexts : CallSpeak(text)
  \/ CallStop
  \/ CallPause
  \/ CallResume
  \/ CallTogglePause
  \/ CallSkipNext
  \/ CallSkipPrevious
  \/ \E index \in 0 .. MaxItems : CallSkipToChunk(index)
  \/ \E rate \in SpeechRates : CallSetRate(rate)
  \/ SpeakResolved
  \/ UtteranceStart
  \/ UtteranceEnd
  \/ UtteranceError
  \/ UtteranceEndPaused
  \/ CancelledEnd

SpecSpeech == InitSpeech /\ [][NextSpeech]_vars


(***************************************************************************)
(* Claims about the speech module                                          *)
(***************************************************************************)
\* an utterance begins to be spoken in this step
UtteranceStarts ==
  /\ Len(tts'.queue) > 0
  /\ Head(tts'.queue).started
  /\ ~(Len(tts.queue) > 0 /\ Head(tts.queue).started)

\* C31: once stop() has run, isPlaying stays false and no utterance is
\* started until speak() is called again, also when a call of speak() was
\* awaiting initVoice when stop() ran
C31_StopIsFinal ==
  /\ [](listener.stopped => ~tts.isPlaying)
  /\ [][(listener.stopped /\ listener'.stopped) => ~UtteranceStarts]_vars


\* C32: at most one utterance is pending or being spoken in the synthesizer
\* at any time, whatever the interleaving of the calls and of the events
C32_OneUtterance == Len(tts.queue) <= 1


\* C37: in every state of the speech module currentChunkIndex is at least 0
\* and at most the number of chunks
C37_IndexInRange ==
  /\ tts.currentChunkIndex >= 0
  /\ tts.currentChunkIndex <= Len(tts.textChunks)

\* C38: in every state of the speech module isPaused implies isPlaying
C38_PausedIsPlaying == tts.isPaused => tts.isPlaying

\* a reading that was paused after its last utterance had failed, at the
\* highest rate, with the end event of a cancelled utterance still to come
C38_Witness ==
  /\ tts.isPaused /\ tts.isPlaying
  /\ tts.queue = <<>>
  /\ tts.currentChunkIndex = Len(tts.textChunks)
  /\ tts.late > 0
  /\ tts.currentRate = MAX_RATE

(***************************************************************************)
(* A reading in which utterances end or fail                               *)
(***************************************************************************)
NextFaulty ==
  \/ NextPlayback
  \/ UtteranceError

SpecFaulty == InitPlayback /\ [][NextFaulty]_vars

\* initVoice resolves, the speech engine starts what heads its queue unless
\* it is paused, and every utterance ends or fails
FairFaulty ==
  /\ SpecFaulty
  /\ WF_vars(SpeakResolved)
  /\ WF_vars(UtteranceStart)
  /\ WF_vars(UtteranceEnd \/ UtteranceError)

\* onEnd has been delivered since the reading began
EndDelivered ==
  \E i \in 1..Len(listener.log) : listener.log[i].callback = "onEnd"

\* C33: when every utterance ends or fails and the user neither pauses nor
\* stops, a reading started by speak() comes to its end: isPlaying is false,
\* onEnd has been delivered and the UI is back to 'stopped', also when the
\* last chunk fails with an error other than 'interrupted' and 'canceled'
C33_ReadingTerminates ==
  Reading ~> (~tts.isPlaying /\ EndDelivered /\ controller.ui = "stopped")


(***************************************************************************)
(* A reading that is paused and resumed                                    *)
(***************************************************************************)
\* TTS.resume() on a paused reading, after which the user does nothing more;
\* the index of the first chunk that remains is kept
CallResumeLast ==
  /\ Acting
  /\ tts.isPlaying /\ tts.isPaused
  /\ tts' = resume(tts)
  /\ controller' = updateUI(controller, "playing")
  /\ listener' = [listener EXCEPT !.clicked = <<tts.currentChunkIndex>>]
  /\ UNCHANGED <<pathname, document, ret>>

NextResume ==
  \/ \E text \in SpeechTexts : Acting /\ CallSpeak(text)
  \/ Acting /\ CallPause
  \/ Acting /\ CallResume
  \/ CallResumeLast
  \/ SpeakResolved
  \/ UtteranceStart
  \/ UtteranceEnd
  \/ UtteranceEndPaused
  \/ CancelledEnd

SpecResume == InitSpeech /\ [][NextResume]_vars

\* initVoice resolves, the speech engine speaks what heads its queue unless
\* it is paused, and the end event of a cancelled utterance arrives
FairResume ==
  /\ SpecResume
  /\ WF_vars(SpeakResolved)
  /\ WF_vars(UtteranceStart)
  /\ WF_vars(UtteranceEnd)
  /\ WF_vars(CancelledEnd)

\* the reading has been resumed and the user does nothing more
Resumed == ~Acting

\* the chunks that remained when the reading was resumed
RemainingChunks == listener.clicked[1] .. Len(tts.textChunks) - 1

\* C34: when a paused reading is resumed, every remaining chunk is spoken in
\* the end, also when the end event of the utterance arrived while isPaused
\* was true
C34_ResumeContinues ==
  Resumed ~> (Resumed /\ RemainingChunks \subseteq listener.heard)


(***************************************************************************)
(* Claims that relate detection, extraction and the text that is read      *)
(***************************************************************************)
\* C35: on one state of the document and of the address, when isArticlePage()
\* is true, getReadableText() gives a text
C35_ArticleHasText ==
  isArticlePage(pathname, document) => getReadableText(pathname, document) # <<>>


(***************************************************************************)
(* The address changes while a text is read                                *)
(***************************************************************************)
\* the single-page application goes to another page while the text is read:
\* the address changes and the new page is rendered from nothing
Leave(path) ==
  /\ Reading
  /\ tts.isPlaying
  /\ path # pathname
  /\ pathname' = path
  /\ document' = EmptyDocument
  /\ ret' = NoCall
  /\ UNCHANGED <<controller, tts, listener>>

NextLeave ==
  \/ RenderPrimaryColumn
  \/ Render(PostMarkup, "primaryColumn")
  \/ \E last \in BOOLEAN : ToggleReading(last)
  \/ \E path \in ControllerPaths : Leave(path)
  \/ checkAndUpdatePlayer
  \/ PollTimeout
  \/ Popstate
  \/ PopstateTimeout
  \/ SpeakResolved
  \/ UtteranceStart
  \/ UtteranceEnd

SpecLeave == InitPlayback /\ [][NextLeave]_vars

\* the reading that began on the first page has been stopped
ReadingStopped == ~tts.isPlaying /\ ~tts.isPaused /\ tts.queue = <<>>

\* C36: when the address has changed to another page while a text was read,
\* the check of the new page leaves the reading stopped, whether the new page
\* is an article page or not
C36_LeavingStopsReading ==
  [][(Reading /\ pathname # TranscriptPath /\ pathname = controller.lastUrl
        /\ CheckFires)
       => ReadingStopped']_vars


\* the text that is read when paragraphs are read in order after the line of
\* the author
ReadsParagraphs(text, author, paragraphs) ==
  text = (IF author # "" THEN "Article by " \o author \o "\n\n" ELSE "")
           \o BlankLineJoined(paragraphs, Len(paragraphs))

\* C39: on one state of the document getReadableText() gives a text exactly
\* when getStructuredContent().paragraphs is not empty, and the paragraphs it
\* reads are those of the structured content in the same order
C39_ReadsStructuredContent ==
  With(getReadableText(pathname, document), LAMBDA text :
    With(getStructuredContent(pathname, document), LAMBDA content :
      /\ (text # <<>>) <=> (Len(content.paragraphs) > 0)
      /\ (text # <<>>) => ReadsParagraphs(text[1], content.author, content.paragraphs)))

====
